---- MODULE Spec2Model ----
(***************************************************************************)
(* A model of the scoring, aggregation and pricing library of the          *)
(* frisbee-games frontend (lib/utils.ts) and of the handlers of its pages  *)
(* that write to the backend (pages/Home.tsx, JoinLeague.tsx,              *)
(* LeagueDetail.tsx).                                                      *)
(*                                                                         *)
(* Strings are sequences of UTF-16 code units, so that the comparisons of  *)
(* the code (the > of two strings, the default order of Array.sort) and    *)
(* its concatenated keys are computed, not assumed.  A value that may be   *)
(* null or undefined is << >> when absent and << v >> when present.        *)
(***************************************************************************)
EXTENDS Integers, Sequences, FiniteSets, TLC

VARIABLES
    stat,           \* the arguments given to the score functions
    scores,         \* role -> the score returned for stat, absent until called
    playerStats,    \* the array given to getMostRecentTournamentStats
    tournamentMap,  \* the Map built by the latest call of the aggregator
    statsResults,   \* the values returned by the calls of the aggregator, in order
    playerScores,   \* the array given to calculatePlayerPrices
    priceResults,   \* the Maps returned by the calls of calculatePlayerPrices, in order
    candidate,      \* the array given to validateRoster
    validation,     \* what validateRoster returned for candidate, absent until called
    route,          \* the path of the page the router shows
    roster_players, \* the rows of table roster_players of one user in one league
    localRoster,    \* the roster state of the LeagueDetail page
    rosterError,    \* the rosterError state of the LeagueDetail page
    rosterOps,      \* the roster operations that wait for an answer of the backend
    nextRosterId,   \* the id the backend gives to the next row of roster_players
    selectedPlayer, \* LeagueDetail: the player of the open position modal, null when closed
    loadingRoster,  \* LeagueDetail: the loadingRoster state
    leagues,        \* the rows of table leagues
    league_participants, \* the rows of table league_participants
    nextLeagueId,   \* the id the backend gives to the next row of leagues
    createError,    \* Home: the createError state
    createdLeague,  \* Home: the createdLeague state
    joinError,      \* Home: the joinError state
    joinSuccess,    \* Home: the joinSuccess state
    userLeagues,    \* Home: the userLeagues state
    loadingLeagues, \* Home: the loadingLeagues state
    createLoading,  \* Home: the createLoading state
    joinLoading,    \* Home: the joinLoading state
    createOps,      \* the handleCreateLeague executions that wait for an answer of the backend
    joinPageError,  \* JoinLeague: the error state
    joinPageSuccess, \* JoinLeague: the success state
    joinPageLeague, \* JoinLeague: the league state
    isAlreadyMember, \* JoinLeague: the isAlreadyMember state
    joinPageLoading, \* JoinLeague: the loading state
    joining,        \* JoinLeague: the joining state
    detailError,    \* LeagueDetail: the error state
    detailLeague,   \* LeagueDetail: the league state
    detailLoading,  \* LeagueDetail: the loading state
    location,       \* ProtectedRoute: the location of the router, pathname and search
    session,        \* the user of the session of the auth client, null when signed out
    protectedUser,  \* ProtectedRoute: the user state
    protectedLoading, \* ProtectedRoute: the loading state
    getUserRequest, \* the users the unanswered getUser() of checkUser may return
    authChanges,    \* the number of calls of the onAuthStateChange callback
    rendered,       \* ProtectedRoute: what its latest render returned
    player_stats,   \* the table player_stats
    playerLeague,   \* PlayerDetail: the league state
    playerName,     \* PlayerDetail: the playerName parameter of the route
    playerError,    \* PlayerDetail: the error state
    playerLoadingStats, \* PlayerDetail: the loadingStats state
    allLeaguePlayerStats, \* PlayerDetail: the allLeaguePlayerStats state
    aggregatedStats, \* PlayerDetail: the aggregatedStats state
    gameStats,      \* PlayerDetail: the gameStats state
    playerSalaryCapStats, \* PlayerDetail: the salaryCapStats state
    leagueLoadingStats, \* LeagueDetail: the loadingStats state
    leagueAggregatedStats, \* LeagueDetail: the playerStats state
    leagueSalaryCapStats \* LeagueDetail: the salaryCapStats state

vars == <<stat, scores, playerStats, tournamentMap, statsResults, playerScores, priceResults,
          candidate, validation, route,
          roster_players, localRoster, rosterError, rosterOps, nextRosterId, selectedPlayer,
          loadingRoster,
          leagues, league_participants, nextLeagueId,
          createError, createdLeague, joinError, joinSuccess, userLeagues, loadingLeagues,
          createLoading, joinLoading, createOps,
          joinPageError, joinPageSuccess, joinPageLeague, isAlreadyMember, joinPageLoading, joining,
          detailError, detailLeague, detailLoading,
          location, session, protectedUser, protectedLoading, getUserRequest, authChanges, rendered,
          player_stats, playerLeague, playerName, playerError, playerLoadingStats,
          allLeaguePlayerStats, aggregatedStats, gameStats, playerSalaryCapStats,
          leagueLoadingStats, leagueAggregatedStats, leagueSalaryCapStats>>
scoreVars == <<stat, scores>>
aggregatorVars == <<playerStats, tournamentMap, statsResults>>
priceVars == <<playerScores, priceResults>>
validateVars == <<candidate, validation>>
rosterVars == <<roster_players, localRoster, rosterError, rosterOps, nextRosterId, selectedPlayer,
                loadingRoster>>
tableVars == <<leagues, league_participants, nextLeagueId>>
homeVars == <<createError, createdLeague, joinError, joinSuccess, userLeagues, loadingLeagues,
              createLoading, joinLoading, createOps>>
joinPageVars == <<joinPageError, joinPageSuccess, joinPageLeague, isAlreadyMember,
                  joinPageLoading, joining>>
detailVars == <<detailError, detailLeague, detailLoading>>
authVars == <<location, session, protectedUser, protectedLoading, getUserRequest, authChanges,
              rendered>>
playerDetailVars == <<playerLeague, playerName, playerError, playerLoadingStats,
                      allLeaguePlayerStats, aggregatedStats, gameStats, playerSalaryCapStats>>
leagueStatsVars == <<leagueLoadingStats, leagueAggregatedStats, leagueSalaryCapStats>>
statsVars == <<player_stats, playerDetailVars, leagueStatsVars>>
handlerVars == <<route, rosterVars, tableVars, homeVars, joinPageVars, detailVars>>
pageVars == <<handlerVars, authVars, statsVars>>

(***************************************************************************)
(* Bounds of the model.                                                    *)
(***************************************************************************)
MaxStatArg == 3     \* greatest value of one argument of a score function
MaxRows == 2        \* greatest length of the aggregator's input array
MaxPool == 3        \* greatest number of players of a pool
MaxCalls == 2       \* calls of one function on one input
MaxPerPosition == 3 \* greatest number of players of one position in a candidate roster
MaxInserts == 2     \* rows the backend accepts into roster_players in one run
MaxInFlight == 2    \* operations of one page that wait for the backend at one time
MaxParticipants == 2 \* rows the backend accepts into league_participants
MaxLeagues == 2     \* rows the backend accepts into leagues in one run
MaxAuthChanges == 2 \* authentication events delivered to one ProtectedRoute
MaxStatRows == 3    \* rows of the table player_stats

(***************************************************************************)
(* Strings and optional values.                                            *)
(***************************************************************************)
EmptyStr == << >>
null == << >>
undefined == << >>
Some(v) == << v >>
Truthy(s) == s # EmptyStr
Separator == << 124 >>                          \* "|"

RECURSIVE StrLess(_, _)
StrLess(a, b) ==
    IF b = << >> THEN FALSE
    ELSE IF a = << >> THEN TRUE
    ELSE IF a[1] # b[1] THEN a[1] < b[1]
    ELSE StrLess(Tail(a), Tail(b))

StrGreater(a, b) == StrLess(b, a)

\* stat.timestamp || ''
OrEmpty(opt) == IF opt = undefined \/ opt[1] = EmptyStr THEN EmptyStr ELSE opt[1]

Last(s) == s[Len(s)]

(***************************************************************************)
(* The four score formulas.                                                *)
(***************************************************************************)
\* a slip: the throwaways are left out of the turnovers
FantasyScoreWithoutThrowaways(goals, assists, ds, drops, throwaways) ==
    LET turnovers == drops
    IN  3 * assists + 3 * goals + 9 * ds - 3 * turnovers

calculateFantasyScore(goals, assists, ds, drops, throwaways) ==
    LET turnovers == drops + throwaways
    IN  3 * assists + 3 * goals + 9 * ds - 3 * turnovers

\* the copy of the captain formula kept in frontend/src/lib/utils.ts
utilsCalculateFantasyScore(goals, assists, ds, drops, throwaways) ==
    LET turnovers == drops + throwaways
    IN  3 * assists + 3 * goals + 9 * ds - 3 * turnovers

calculateHandlerScore(goals, assists, ds, drops, throwaways) ==
    LET turnovers == drops + throwaways
    IN  3 * assists + 1 * goals + 3 * ds - 1 * turnovers

calculateCutterScore(goals, assists, ds, drops, throwaways) ==
    LET turnovers == drops + throwaways
    IN  1 * assists + 3 * goals + 3 * ds - 1 * turnovers

\* a slip: the defender formula with the weight the cutter formula gives a d
DefenderScoreWithCutterWeight(goals, assists, ds, drops, throwaways) ==
    LET turnovers == drops + throwaways
    IN  1 * assists + 1 * goals + 3 * ds - 1 * turnovers

calculateDefenderScore(goals, assists, ds, drops, throwaways) ==
    LET turnovers == drops + throwaways
    IN  1 * assists + 1 * goals + 9 * ds - 1 * turnovers

(***************************************************************************)
(* Map<string, V>: the entries in insertion order, which is the order of   *)
(* Map.forEach and Map.keys.                                               *)
(***************************************************************************)
MapHas(map, k) == \E i \in 1..Len(map) : map[i].key = k
MapIndex(map, k) == CHOOSE i \in 1..Len(map) : map[i].key = k
MapGet(map, k) == map[MapIndex(map, k)].value
MapSet(map, k, v) ==
    IF MapHas(map, k)
    THEN [map EXCEPT ![MapIndex(map, k)] = [key |-> k, value |-> v]]
    ELSE Append(map, [key |-> k, value |-> v])
MapKeys(map) == [i \in 1..Len(map) |-> map[i].key]

\* Array.prototype.sort() of an array of strings: ascending code-unit order
RECURSIVE InsertSorted(_, _)
InsertSorted(s, x) ==
    IF s = << >> THEN << x >>
    ELSE IF StrLess(x, Head(s)) THEN << x >> \o s
    ELSE << Head(s) >> \o InsertSorted(Tail(s), x)

RECURSIVE Sort(_)
Sort(s) == IF s = << >> THEN << >> ELSE InsertSorted(Sort(Tail(s)), Head(s))

(***************************************************************************)
(* getMostRecentTournamentStats                                            *)
(***************************************************************************)
\* a slip: the Map is kept between calls instead of being created by each call
StaleTournamentMap == tournamentMap

\* const tournamentMap = new Map()
NewTournamentMap == << >>

\* a slip: the game is left out of the key
GameKeyWithoutGame(tournament, game_played) == tournament

\* `${tournament}|${stat.game_played}`
GameKey(tournament, game_played) == tournament \o Separator \o game_played

\* a slip: the drops of a row are added to the throwaways as well
AccumulateStatDropsTwice(map, row) ==
    LET tournament == row.tournament_played
        gameKey == GameKey(tournament, row.game_played)
        timestamp == OrEmpty(row.timestamp)
        map1 == IF ~MapHas(map, tournament)
                THEN MapSet(map, tournament,
                            [timestamp |-> timestamp, games |-> {}, goals |-> 0,
                             assists |-> 0, ds |-> 0, drops |-> 0, throwaways |-> 0])
                ELSE map
        data == MapGet(map1, tournament)
        summed == [data EXCEPT !.games = @ \cup {gameKey},
                               !.goals = @ + row.goals,
                               !.assists = @ + row.assists,
                               !.ds = @ + row.ds,
                               !.drops = @ + row.drops,
                               !.throwaways = @ + row.drops]
        updated == IF Truthy(timestamp)
                      /\ (~Truthy(summed.timestamp) \/ StrGreater(timestamp, summed.timestamp))
                   THEN [summed EXCEPT !.timestamp = timestamp]
                   ELSE summed
    IN  MapSet(map1, tournament, updated)

\* the body of playerStats.forEach: one row folded into the map
AccumulateStat(map, row) ==
    LET tournament == row.tournament_played
        gameKey == GameKey(tournament, row.game_played)
        timestamp == OrEmpty(row.timestamp)
        map1 == IF ~MapHas(map, tournament)
                THEN MapSet(map, tournament,
                            [timestamp |-> timestamp, games |-> {}, goals |-> 0,
                             assists |-> 0, ds |-> 0, drops |-> 0, throwaways |-> 0])
                ELSE map
        data == MapGet(map1, tournament)
        summed == [data EXCEPT !.games = @ \cup {gameKey},
                               !.goals = @ + row.goals,
                               !.assists = @ + row.assists,
                               !.ds = @ + row.ds,
                               !.drops = @ + row.drops,
                               !.throwaways = @ + row.throwaways]
        updated == IF Truthy(timestamp)
                      /\ (~Truthy(summed.timestamp) \/ StrGreater(timestamp, summed.timestamp))
                   THEN [summed EXCEPT !.timestamp = timestamp]
                   ELSE summed
    IN  MapSet(map1, tournament, updated)

RECURSIVE BuildTournamentMap(_, _)
BuildTournamentMap(map, rows) ==
    IF rows = << >> THEN map
    ELSE BuildTournamentMap(AccumulateStat(map, Head(rows)), Tail(rows))

\* the body of tournamentMap.forEach: the running (timestamp, tournament) pair
SelectStep(acc, entry) ==
    IF Truthy(entry.value.timestamp)
       /\ (~Truthy(acc.mostRecentTimestamp)
           \/ StrGreater(entry.value.timestamp, acc.mostRecentTimestamp))
    THEN [mostRecentTimestamp |-> entry.value.timestamp,
          mostRecentTournament |-> Some(entry.key)]
    ELSE acc

RECURSIVE SelectMostRecent(_, _)
SelectMostRecent(acc, entries) ==
    IF entries = << >> THEN acc
    ELSE SelectMostRecent(SelectStep(acc, Head(entries)), Tail(entries))

\* !mostRecentTournament : null and '' are both falsy
Falsy(opt) == opt = null \/ opt[1] = EmptyStr

\* Array.from(tournamentMap.keys()).sort()[0] || null
FirstAlphabetically(map) ==
    LET tournaments == Sort(MapKeys(map))
    IN  IF tournaments = << >> THEN null
        ELSE IF tournaments[1] = EmptyStr THEN null
        ELSE Some(tournaments[1])

MostRecentTournament(map) ==
    LET byTimestamp == SelectMostRecent(
                           [mostRecentTimestamp |-> EmptyStr, mostRecentTournament |-> null],
                           map).mostRecentTournament
    IN  IF Falsy(byTimestamp) THEN FirstAlphabetically(map) ELSE byTimestamp

StatsOfMap(map) ==
    LET mostRecentTournament == MostRecentTournament(map)
    IN  IF Falsy(mostRecentTournament) THEN null
        ELSE LET tournamentData == MapGet(map, mostRecentTournament[1])
             IN  Some([tournament_name |-> mostRecentTournament[1],
                       games_played |-> Cardinality(tournamentData.games),
                       goals |-> tournamentData.goals,
                       assists |-> tournamentData.assists,
                       ds |-> tournamentData.ds,
                       drops |-> tournamentData.drops,
                       throwaways |-> tournamentData.throwaways,
                       captain_score |-> calculateFantasyScore(
                           tournamentData.goals, tournamentData.assists,
                           tournamentData.ds, tournamentData.drops,
                           tournamentData.throwaways)])

getMostRecentTournamentStats(rows) ==
    IF Len(rows) = 0 THEN null
    ELSE StatsOfMap(BuildTournamentMap(NewTournamentMap, rows))

(***************************************************************************)
(* scalePrice and calculatePlayerPrices.  A price is the rational          *)
(* 1 + (score - min) / (max - min) * 19, kept as numerator over the        *)
(* positive denominator max - min; Math.round is floor(x + 1/2).           *)
(***************************************************************************)
\* a slip: Math.floor in the place of Math.round
MathFloor(num, den) == num \div den

MathRound(num, den) == (2 * num + den) \div (2 * den)

\* a slip: the offset 1 of the price range is left out
ScalePriceWithoutOffset(score, minScore, maxScore) ==
    IF maxScore = minScore THEN 11
    ELSE MathRound((score - minScore) * 19, maxScore - minScore)

\* a slip: the midpoint 10.5 rounded down
ScalePriceMidpointTen(score, minScore, maxScore) ==
    IF maxScore = minScore THEN 10
    ELSE MathRound((maxScore - minScore) + (score - minScore) * 19, maxScore - minScore)

scalePrice(score, minScore, maxScore) ==
    IF maxScore = minScore THEN 11
    ELSE MathRound((maxScore - minScore) + (score - minScore) * 19, maxScore - minScore)

MathMin(s) == CHOOSE m \in {s[i] : i \in 1..Len(s)} : \A i \in 1..Len(s) : m <= s[i]
MathMax(s) == CHOOSE m \in {s[i] : i \in 1..Len(s)} : \A i \in 1..Len(s) : m >= s[i]

\* `${player.player_name}|${player.player_team}`
PlayerKey(player) == player.player_name \o Separator \o player.player_team

\* new Map()
NewPriceMap == << >>

RECURSIVE SetPrices(_, _, _, _)
SetPrices(priceMap, players, minScore, maxScore) ==
    IF players = << >> THEN priceMap
    ELSE SetPrices(MapSet(priceMap, PlayerKey(Head(players)),
                          scalePrice(Head(players).captain_score, minScore, maxScore)),
                   Tail(players), minScore, maxScore)

calculatePlayerPrices(players) ==
    IF Len(players) = 0 THEN NewPriceMap
    ELSE LET scoreList == [i \in 1..Len(players) |-> players[i].captain_score]
         IN  SetPrices(NewPriceMap, players, MathMin(scoreList), MathMax(scoreList))

(***************************************************************************)
(* The salary-cap constants, calculateRosterCost and validateRoster.  An   *)
(* error message is its template with the values it interpolates.          *)
(***************************************************************************)
SALARY_CAP_BUDGET == 70
SALARY_CAP_ROSTER == [captain |-> 1, handler |-> 2, cutter |-> 2, defender |-> 2]
RosterPositions == {"captain", "handler", "cutter", "defender"}

RECURSIVE calculateRosterCost(_)
calculateRosterCost(roster) ==
    IF roster = << >> THEN 0
    ELSE Head(roster).price + calculateRosterCost(Tail(roster))

\* roster.forEach(player => positionCounts[player.position]++)
RECURSIVE CountPositions(_, _)
CountPositions(positionCounts, roster) ==
    IF roster = << >> THEN positionCounts
    ELSE CountPositions([positionCounts EXCEPT ![Head(roster).position] = @ + 1], Tail(roster))

CeilingError(position, plural) ==
    [isValid |-> FALSE,
     error |-> Some([text |-> "Cannot have more than ${n} " \o plural,
                     args |-> << SALARY_CAP_ROSTER[position] >>])]

BudgetError(totalCost) ==
    [isValid |-> FALSE,
     error |-> Some([text |-> "Total cost (${totalCost.toFixed(2)}) exceeds budget (${budget})",
                     args |-> << totalCost, SALARY_CAP_BUDGET >>])]

Valid == [isValid |-> TRUE, error |-> undefined]

\* a slip: a roster that spends the whole budget is refused
AtOrOverBudget(totalCost) == totalCost >= SALARY_CAP_BUDGET

\* totalCost > SALARY_CAP_BUDGET
OverBudget(totalCost) == totalCost > SALARY_CAP_BUDGET

\* a slip: the budget is checked before the position limits
ValidateRosterBudgetFirst(roster) ==
    LET positionCounts ==
            CountPositions([captain |-> 0, handler |-> 0, cutter |-> 0, defender |-> 0], roster)
        totalCost == calculateRosterCost(roster)
    IN  IF OverBudget(totalCost) THEN BudgetError(totalCost)
        ELSE IF positionCounts.captain > SALARY_CAP_ROSTER.captain
        THEN CeilingError("captain", "captain")
        ELSE IF positionCounts.handler > SALARY_CAP_ROSTER.handler
        THEN CeilingError("handler", "handlers")
        ELSE IF positionCounts.cutter > SALARY_CAP_ROSTER.cutter
        THEN CeilingError("cutter", "cutters")
        ELSE IF positionCounts.defender > SALARY_CAP_ROSTER.defender
        THEN CeilingError("defender", "defenders")
        ELSE Valid

validateRoster(roster) ==
    LET positionCounts ==
            CountPositions([captain |-> 0, handler |-> 0, cutter |-> 0, defender |-> 0], roster)
        totalCost == calculateRosterCost(roster)
    IN  IF positionCounts.captain > SALARY_CAP_ROSTER.captain
        THEN CeilingError("captain", "captain")
        ELSE IF positionCounts.handler > SALARY_CAP_ROSTER.handler
        THEN CeilingError("handler", "handlers")
        ELSE IF positionCounts.cutter > SALARY_CAP_ROSTER.cutter
        THEN CeilingError("cutter", "cutters")
        ELSE IF positionCounts.defender > SALARY_CAP_ROSTER.defender
        THEN CeilingError("defender", "defenders")
        ELSE IF OverBudget(totalCost) THEN BudgetError(totalCost)
        ELSE Valid

(***************************************************************************)
(* The inputs the model draws.                                             *)
(***************************************************************************)
SeqsUpTo(S, n) == UNION {[1..k -> S] : k \in 0..n}

StatFields == {"goals", "assists", "ds", "drops", "throwaways"}
ZeroStats == [goals |-> 0, assists |-> 0, ds |-> 0, drops |-> 0, throwaways |-> 0]
StatArgs == [StatFields -> 0..MaxStatArg]

Alpha == << 65, 108, 112, 104, 97 >>            \* "Alpha"
Zeta == << 90, 101, 116, 97 >>                  \* "Zeta"
TournamentNames == {EmptyStr, Alpha, Zeta}
\* absent, '', "10" and "2": as strings "2" is the greater of the last two
Timestamps == {undefined, Some(EmptyStr), Some(<< 49, 48 >>), Some(<< 50 >>)}
\* what one row records: a game ("G1" or "G2") and the counting stats of the
\* player in it
GameLines ==
    {[game_played |-> << 71, 49 >>, stats |-> [ZeroStats EXCEPT !.goals = 1]],
     [game_played |-> << 71, 50 >>, stats |-> [ZeroStats EXCEPT !.goals = 1]],
     [game_played |-> << 71, 49 >>, stats |-> [ZeroStats EXCEPT !.assists = 1]],
     [game_played |-> << 71, 50 >>, stats |-> [ZeroStats EXCEPT !.ds = 1]],
     [game_played |-> << 71, 49 >>, stats |-> [ZeroStats EXCEPT !.drops = 1]],
     [game_played |-> << 71, 50 >>, stats |-> [ZeroStats EXCEPT !.throwaways = 1]]}

PlayerStatRows ==
    {[player_name |-> << 97 >>, player_team |-> << 98 >>,
      tournament_played |-> t, game_played |-> l.game_played, timestamp |-> ts,
      goals |-> l.stats.goals, assists |-> l.stats.assists, ds |-> l.stats.ds,
      drops |-> l.stats.drops, throwaways |-> l.stats.throwaways] :
        t \in TournamentNames, ts \in Timestamps, l \in GameLines}

\* ("a","b"), ("c","b"), ("a|","b") and ("a","|b"): the last two have the key "a||b"
PlayerIds == {<< << 97 >>, << 98 >> >>, << << 99 >>, << 98 >> >>,
              << << 97, 124 >>, << 98 >> >>, << << 97 >>, << 124, 98 >> >>}
CaptainScores == {-6, 0, 5, 10, 20, 30}
PoolPlayers ==
    {[player_name |-> id[1], player_team |-> id[2], captain_score |-> c] :
        id \in PlayerIds, c \in CaptainScores}

\* A candidate roster: for each position a number of players and the price of
\* each of them, the positions in the order of SlotOrder or in its reverse.
RosterPrices == {0, 10, 80}
SlotOrder == << "captain", "handler", "cutter", "defender" >>
Reverse(s) == [i \in 1..Len(s) |-> s[Len(s) + 1 - i]]

RECURSIVE SlotsOf(_, _, _)
SlotsOf(order, counts, prices) ==
    IF order = << >> THEN << >>
    ELSE [i \in 1..counts[Head(order)] |-> [position |-> Head(order), price |-> prices[Head(order)]]]
         \o SlotsOf(Tail(order), counts, prices)

CandidateRosters ==
    {SlotsOf(order, counts, prices) :
        order \in {SlotOrder, Reverse(SlotOrder)},
        counts \in [RosterPositions -> 0..MaxPerPosition],
        prices \in [RosterPositions -> RosterPrices]}

(***************************************************************************)
(* States and steps.  Each specification draws the input of the functions  *)
(* it is about and leaves the other inputs empty.                          *)
(***************************************************************************)
NoScores == [r \in {"captain", "captainUtils", "handler", "cutter", "defender"} |-> null]

\* the inputs a specification does not draw
NoValidateInput == candidate = << >> /\ validation = << >>

\* the page state before any handler has run
NoRosterState ==
    /\ roster_players = << >> /\ localRoster = << >> /\ rosterError = null
    /\ rosterOps = << >> /\ nextRosterId = 1 /\ selectedPlayer = null /\ loadingRoster = FALSE
NoTables == leagues = << >> /\ league_participants = << >> /\ nextLeagueId = 1
NoHomeState ==
    /\ createError = null /\ createdLeague = null /\ joinError = null /\ joinSuccess = null
    /\ userLeagues = << >> /\ loadingLeagues = TRUE /\ createOps = << >>
    /\ createLoading = FALSE /\ joinLoading = FALSE
NoJoinPageState ==
    /\ joinPageError = null /\ joinPageSuccess = FALSE /\ joinPageLeague = null
    /\ isAlreadyMember = FALSE /\ joinPageLoading = TRUE /\ joining = FALSE
NoDetailState == detailError = null /\ detailLeague = null /\ detailLoading = TRUE
NoAuthState ==
    /\ location = [pathname |-> << 47 >>, search |-> << >>]
    /\ session = null /\ protectedUser = null /\ protectedLoading = TRUE
    /\ getUserRequest = {} /\ authChanges = 0 /\ rendered = "loading"
NoPlayerDetailState ==
    /\ playerLeague = << >> /\ playerName = << >> /\ playerError = << >>
    /\ playerLoadingStats = FALSE /\ allLeaguePlayerStats = << >>
    /\ aggregatedStats = << >> /\ gameStats = << >> /\ playerSalaryCapStats = << >>
NoLeagueStatsState ==
    /\ leagueLoadingStats = FALSE /\ leagueAggregatedStats = << >> /\ leagueSalaryCapStats = << >>
NoStatsState == player_stats = << >> /\ NoPlayerDetailState /\ NoLeagueStatsState
NoPageState ==
    /\ route = "/login"
    /\ NoRosterState /\ NoTables /\ NoHomeState /\ NoJoinPageState /\ NoDetailState
    /\ NoAuthState /\ NoStatsState

InitScores ==
    /\ stat \in StatArgs
    /\ scores = NoScores
    /\ playerStats = << >> /\ tournamentMap = << >> /\ statsResults = << >>
    /\ playerScores = << >> /\ priceResults = << >>
    /\ NoValidateInput
    /\ NoPageState

InitAggregator ==
    /\ playerStats \in SeqsUpTo(PlayerStatRows, MaxRows)
    /\ tournamentMap = << >> /\ statsResults = << >>
    /\ stat = ZeroStats /\ scores = NoScores
    /\ playerScores = << >> /\ priceResults = << >>
    /\ NoValidateInput
    /\ NoPageState

InitPrices ==
    /\ playerScores \in SeqsUpTo(PoolPlayers, MaxPool)
    /\ priceResults = << >>
    /\ stat = ZeroStats /\ scores = NoScores
    /\ playerStats = << >> /\ tournamentMap = << >> /\ statsResults = << >>
    /\ NoValidateInput
    /\ NoPageState

CallFantasyScore ==
    /\ scores.captain = null
    /\ scores' = [scores EXCEPT !.captain = Some(calculateFantasyScore(
                      stat.goals, stat.assists, stat.ds, stat.drops, stat.throwaways))]
    /\ UNCHANGED <<stat, aggregatorVars, priceVars, validateVars, pageVars>>

CallUtilsFantasyScore ==
    /\ scores.captainUtils = null
    /\ scores' = [scores EXCEPT !.captainUtils = Some(utilsCalculateFantasyScore(
                      stat.goals, stat.assists, stat.ds, stat.drops, stat.throwaways))]
    /\ UNCHANGED <<stat, aggregatorVars, priceVars, validateVars, pageVars>>

CallHandlerScore ==
    /\ scores.handler = null
    /\ scores' = [scores EXCEPT !.handler = Some(calculateHandlerScore(
                      stat.goals, stat.assists, stat.ds, stat.drops, stat.throwaways))]
    /\ UNCHANGED <<stat, aggregatorVars, priceVars, validateVars, pageVars>>

CallCutterScore ==
    /\ scores.cutter = null
    /\ scores' = [scores EXCEPT !.cutter = Some(calculateCutterScore(
                      stat.goals, stat.assists, stat.ds, stat.drops, stat.throwaways))]
    /\ UNCHANGED <<stat, aggregatorVars, priceVars, validateVars, pageVars>>

CallDefenderScore ==
    /\ scores.defender = null
    /\ scores' = [scores EXCEPT !.defender = Some(calculateDefenderScore(
                      stat.goals, stat.assists, stat.ds, stat.drops, stat.throwaways))]
    /\ UNCHANGED <<stat, aggregatorVars, priceVars, validateVars, pageVars>>

\* one call of getMostRecentTournamentStats(playerStats)
CallGetMostRecentTournamentStats ==
    /\ Len(statsResults) < MaxCalls
    /\ tournamentMap' = IF Len(playerStats) = 0 THEN tournamentMap
                        ELSE BuildTournamentMap(NewTournamentMap, playerStats)
    /\ statsResults' = Append(statsResults, getMostRecentTournamentStats(playerStats))
    /\ UNCHANGED <<playerStats, scoreVars, priceVars, validateVars, pageVars>>

\* one call of calculatePlayerPrices(playerScores)
CallCalculatePlayerPrices ==
    /\ Len(priceResults) < MaxCalls
    /\ priceResults' = Append(priceResults, calculatePlayerPrices(playerScores))
    /\ UNCHANGED <<playerScores, scoreVars, aggregatorVars, validateVars, pageVars>>

InitValidate ==
    /\ candidate \in CandidateRosters
    /\ validation = << >>
    /\ stat = ZeroStats /\ scores = NoScores
    /\ playerStats = << >> /\ tournamentMap = << >> /\ statsResults = << >>
    /\ playerScores = << >> /\ priceResults = << >>
    /\ NoPageState

\* one call of validateRoster(candidate)
CallValidateRoster ==
    /\ validation = << >>
    /\ validation' = Some(validateRoster(candidate))
    /\ UNCHANGED <<candidate, scoreVars, aggregatorVars, priceVars, pageVars>>

NextScores ==
    \/ CallFantasyScore
    \/ CallUtilsFantasyScore
    \/ CallHandlerScore
    \/ CallCutterScore
    \/ CallDefenderScore

SpecScores == InitScores /\ [][NextScores]_vars
SpecAggregator == InitAggregator /\ [][CallGetMostRecentTournamentStats]_vars
SpecPrices == InitPrices /\ [][CallCalculatePlayerPrices]_vars
SpecValidate == InitValidate /\ [][CallValidateRoster]_vars

\* either function called repeatedly on the input drawn for it
InitLibrary == InitAggregator \/ InitPrices
NextLibrary ==
    \/ playerScores = << >> /\ CallGetMostRecentTournamentStats
    \/ playerStats = << >> /\ CallCalculatePlayerPrices
SpecLibrary == InitLibrary /\ [][NextLibrary]_vars

(***************************************************************************)
(* What the properties below speak of: the rows of the input, grouped by   *)
(* tournament, computed from the input alone.                              *)
(***************************************************************************)
RowIndices == 1..Len(playerStats)
HasTimestamp(row) == row.timestamp # undefined /\ row.timestamp[1] # EmptyStr
TournamentsPlayed == {playerStats[i].tournament_played : i \in RowIndices}
RowsOfTournament(t) == {i \in RowIndices : playerStats[i].tournament_played = t}
TimestampsOfTournament(t) ==
    {playerStats[i].timestamp[1] : i \in {j \in RowsOfTournament(t) : HasTimestamp(playerStats[j])}}

RECURSIVE SumRows(_, _)
SumRows(I, f) ==
    IF I = {} THEN 0
    ELSE LET i == CHOOSE j \in I : TRUE
         IN  playerStats[i][f] + SumRows(I \ {i}, f)

ExampleStat == [goals |-> 2, assists |-> 3, ds |-> 1, drops |-> 1, throwaways |-> 0]

(***************************************************************************)
(* C1: for all non-negative integer stats the captain score is             *)
(* 3*assists + 3*goals + 9*ds - 3*(drops + throwaways), in lib/utils.ts    *)
(* and in its copy; (goals 2, assists 3, ds 1, drops 1, throwaways 0)      *)
(* gives 21.                                                               *)
(***************************************************************************)
CaptainScoreFormula ==
    /\ \A r \in {"captain", "captainUtils"} :
          scores[r] # null =>
              scores[r][1] = 3 * stat.assists + 3 * stat.goals + 9 * stat.ds
                             - 3 * (stat.drops + stat.throwaways)
    /\ \A r \in {"captain", "captainUtils"} :
          (stat = ExampleStat /\ scores[r] # null) => scores[r][1] = 21

CaptainScoreExample ==
    /\ stat = ExampleStat
    /\ scores.captain = Some(21)
    /\ scores.captainUtils = Some(21)

(***************************************************************************)
(* C2: with turnovers = drops + throwaways, the handler score is           *)
(* 3*assists + goals + 3*ds - turnovers, the cutter score is               *)
(* assists + 3*goals + 3*ds - turnovers and the defender score is          *)
(* assists + goals + 9*ds - turnovers; (2,3,1,1,0) gives 13, 11 and 13.    *)
(***************************************************************************)
RoleScoreFormulas ==
    LET turnovers == stat.drops + stat.throwaways
    IN  /\ scores.handler # null =>
              scores.handler[1] = 3 * stat.assists + stat.goals + 3 * stat.ds - turnovers
        /\ scores.cutter # null =>
              scores.cutter[1] = stat.assists + 3 * stat.goals + 3 * stat.ds - turnovers
        /\ scores.defender # null =>
              scores.defender[1] = stat.assists + stat.goals + 9 * stat.ds - turnovers
        /\ stat = ExampleStat =>
              /\ scores.handler # null => scores.handler[1] = 13
              /\ scores.cutter # null => scores.cutter[1] = 11
              /\ scores.defender # null => scores.defender[1] = 13

RoleScoreExample ==
    /\ stat = ExampleStat
    /\ scores.handler = Some(13)
    /\ scores.cutter = Some(11)
    /\ scores.defender = Some(13)

(***************************************************************************)
(* C3: getMostRecentTournamentStats returns null exactly when its input is *)
(* empty; every non-empty input, an empty tournament name included, gives  *)
(* a result for one tournament of the input.                               *)
(***************************************************************************)
NullOnlyForEmptyInput ==
    \A k \in 1..Len(statsResults) :
        /\ playerStats = << >> => statsResults[k] = null
        /\ playerStats # << >> =>
              /\ statsResults[k] # null
              /\ statsResults[k][1].tournament_name \in TournamentsPlayed

(***************************************************************************)
(* C4: when some row carries a non-empty timestamp, the tournament         *)
(* selected has a timestamp, and its greatest timestamp is, as a string,   *)
(* not less than any timestamp of any tournament of the input.             *)
(***************************************************************************)
SelectsGreatestTimestamp ==
    \A k \in 1..Len(statsResults) :
        (\E i \in RowIndices : HasTimestamp(playerStats[i])) =>
            /\ statsResults[k] # null
            /\ LET selected == statsResults[k][1].tournament_name
               IN  /\ TimestampsOfTournament(selected) # {}
                   /\ \A t \in TournamentsPlayed : \A u \in TimestampsOfTournament(t) :
                          \E v \in TimestampsOfTournament(selected) : ~StrLess(v, u)

(***************************************************************************)
(* C5: when no row carries a timestamp, the tournament selected is the one *)
(* whose name is first in the order of the strings, among the tournaments  *)
(* of the input.                                                           *)
(***************************************************************************)
SelectsFirstNameWithoutTimestamps ==
    \A k \in 1..Len(statsResults) :
        (playerStats # << >> /\ \A i \in RowIndices : ~HasTimestamp(playerStats[i])) =>
            /\ statsResults[k] # null
            /\ statsResults[k][1].tournament_name \in TournamentsPlayed
            /\ \A t \in TournamentsPlayed : ~StrLess(t, statsResults[k][1].tournament_name)

(***************************************************************************)
(* C6: in a result that is not null, each counting stat is the sum of that *)
(* stat over the rows of the selected tournament and no other row, and     *)
(* captain_score is the captain formula of these sums.                     *)
(***************************************************************************)
SumsOfSelectedTournament ==
    \A k \in 1..Len(statsResults) :
        statsResults[k] # null =>
            LET r == statsResults[k][1]
                I == RowsOfTournament(r.tournament_name)
            IN  /\ r.goals = SumRows(I, "goals")
                /\ r.assists = SumRows(I, "assists")
                /\ r.ds = SumRows(I, "ds")
                /\ r.drops = SumRows(I, "drops")
                /\ r.throwaways = SumRows(I, "throwaways")
                /\ r.captain_score =
                       3 * SumRows(I, "assists") + 3 * SumRows(I, "goals")
                       + 9 * SumRows(I, "ds")
                       - 3 * (SumRows(I, "drops") + SumRows(I, "throwaways"))

\* a result whose tournament has a drop, beside a row of another tournament
SumsLeaveOtherTournamentOut ==
    \E k \in 1..Len(statsResults) :
        /\ statsResults[k] # null
        /\ statsResults[k][1].drops = 1
        /\ statsResults[k][1].captain_score = -3
        /\ \E i \in RowIndices :
              /\ playerStats[i].tournament_played # statsResults[k][1].tournament_name
              /\ playerStats[i].ds = 1

(***************************************************************************)
(* C7: in a result that is not null, games_played is the number of         *)
(* distinct game_played values of the rows of the selected tournament: at  *)
(* least 1 and at most the number of these rows.                           *)
(***************************************************************************)
GamesPlayedCountsDistinctGames ==
    \A k \in 1..Len(statsResults) :
        statsResults[k] # null =>
            LET r == statsResults[k][1]
                I == RowsOfTournament(r.tournament_name)
            IN  /\ r.games_played = Cardinality({playerStats[i].game_played : i \in I})
                /\ 1 <= r.games_played
                /\ r.games_played <= Cardinality(I)

\* a result whose tournament has two rows, both of one game
TwoRowsOfOneGame ==
    \E k \in 1..Len(statsResults) :
        /\ statsResults[k] # null
        /\ Cardinality(RowsOfTournament(statsResults[k][1].tournament_name)) = 2
        /\ statsResults[k][1].games_played = 1

(***************************************************************************)
(* C8: getMostRecentTournamentStats returns equal results for two inputs   *)
(* that are permutations of each other, also when two tournaments have the *)
(* same greatest timestamp.                                                *)
(***************************************************************************)
Reorderings == {p \in [RowIndices -> RowIndices] : \A i, j \in RowIndices : p[i] = p[j] => i = j}
Reordered(p) == [i \in RowIndices |-> playerStats[p[i]]]

ResultIndependentOfOrder ==
    \A k \in 1..Len(statsResults) : \A p \in Reorderings :
        getMostRecentTournamentStats(Reordered(p)) = statsResults[k]

PricesCoverPoolWithinRange ==
    \A k \in 1..Len(priceResults) :
        LET m == priceResults[k]
        IN  /\ {m[i].key : i \in 1..Len(m)}
                   = {PlayerKey(playerScores[j]) : j \in 1..Len(playerScores)}
            /\ \A i, j \in 1..Len(m) : m[i].key = m[j].key => i = j
            /\ \A i \in 1..Len(m) : m[i].value \in 1..20
            /\ playerScores = << >> => m = << >>

\* a pool of three players with the prices 1 and 20, two of them under one key
PoolWithBothEndsOfRange ==
    \E k \in 1..Len(priceResults) :
        LET m == priceResults[k]
        IN  /\ Len(playerScores) = 3
            /\ Len(m) = 2
            /\ {m[i].value : i \in 1..Len(m)} = {1, 20}

(***************************************************************************)
(* What the properties of the prices speak of: the scores of the pool, and *)
(* the players whose price the returned Map holds (of two players with one *)
(* key, the later one in the pool).                                        *)
(***************************************************************************)
PoolIndices == 1..Len(playerScores)
PoolScores == {playerScores[j].captain_score : j \in PoolIndices}
PoolMin == CHOOSE m \in PoolScores : \A c \in PoolScores : m <= c
PoolMax == CHOOSE m \in PoolScores : \A c \in PoolScores : m >= c
HoldsKey(j) ==
    \A i \in PoolIndices : PlayerKey(playerScores[i]) = PlayerKey(playerScores[j]) => i <= j
PriceOf(m, j) == MapGet(m, PlayerKey(playerScores[j]))

(***************************************************************************)
(* C11: when every player of a pool that is not empty has the same captain *)
(* score, a pool of one player included, every price is 11.                *)
(***************************************************************************)
EqualScoresGiveEleven ==
    \A k \in 1..Len(priceResults) :
        (playerScores # << >> /\ Cardinality(PoolScores) = 1) =>
            /\ Len(priceResults[k]) >= 1
            /\ \A j \in PoolIndices : PriceOf(priceResults[k], j) = 11

\* the pool of three players with the score 5 each, priced
ThreeFivesPriced ==
    \E k \in 1..Len(priceResults) :
        /\ Len(playerScores) = 3
        /\ PoolScores = {5}
        /\ Len(priceResults[k]) = 3
        /\ \A i \in 1..3 : priceResults[k][i].value = 11

(***************************************************************************)
(* C12: when the greatest score of the pool is greater than the least, a   *)
(* price is 1 + 19*(score - min)/(max - min) rounded to the nearest        *)
(* integer, a half rounded up: the integer p with                          *)
(* p <= 1 + 19*(score - min)/(max - min) + 1/2 < p + 1.  The least score   *)
(* gets 1, the greatest 20, and the scores 10, 20, 30 get 1, 11, 20.       *)
(***************************************************************************)
PriceIsRoundedScale ==
    \A k \in 1..Len(priceResults) :
        (playerScores # << >> /\ PoolMax > PoolMin) =>
            \A j \in PoolIndices :
                HoldsKey(j) =>
                    LET price == PriceOf(priceResults[k], j)
                        d == PoolMax - PoolMin
                        n == playerScores[j].captain_score - PoolMin
                    IN  /\ 2 * d * price <= 2 * d + 38 * n + d
                        /\ 2 * d + 38 * n + d < 2 * d * (price + 1)
                        /\ n = 0 => price = 1
                        /\ n = d => price = 20
                        /\ (PoolMin = 10 /\ PoolMax = 30 /\ n = 10) => price = 11

\* the pool with the scores 10, 20, 30 in this order, priced 1, 11, 20
TenTwentyThirtyPriced ==
    \E k \in 1..Len(priceResults) :
        /\ Len(playerScores) = 3
        /\ [j \in 1..3 |-> playerScores[j].captain_score] = << 10, 20, 30 >>
        /\ Len(priceResults[k]) = 3
        /\ [i \in 1..3 |-> priceResults[k][i].value] = << 1, 11, 20 >>

(***************************************************************************)
(* What the properties of the validator speak of: the candidate roster.    *)
(***************************************************************************)
PlayersAt(position) == Cardinality({i \in 1..Len(candidate) : candidate[i].position = position})
AboveCeiling(position) == PlayersAt(position) > SALARY_CAP_ROSTER[position]

RECURSIVE TotalPrice(_)
TotalPrice(I) ==
    IF I = {} THEN 0
    ELSE LET i == CHOOSE j \in I : TRUE
         IN  candidate[i].price + TotalPrice(I \ {i})
CandidateCost == TotalPrice(1..Len(candidate))

ReportsCeiling(result, n, plural) ==
    /\ result.error # undefined
    /\ result.error[1].text = "Cannot have more than ${n} " \o plural
    /\ result.error[1].args = << n >>
ReportsBudget(result) ==
    /\ result.error # undefined
    /\ result.error[1].text = "Total cost (${totalCost.toFixed(2)}) exceeds budget (${budget})"
    /\ result.error[1].args = << CandidateCost, 70 >>

(***************************************************************************)
(* C13: validateRoster reports the first condition violated in the order   *)
(* captain ceiling (1), handler ceiling (2), cutter ceiling (2), defender  *)
(* ceiling (2), budget (70): a ceiling is reported also when the total     *)
(* price is above 70, and the budget only when no position is above its    *)
(* ceiling; one captain priced 80 gives the budget reason.                 *)
(***************************************************************************)
ReportsFirstViolation ==
    validation # << >> =>
        LET result == validation[1]
        IN  /\ AboveCeiling("captain") => ReportsCeiling(result, 1, "captain")
            /\ (~AboveCeiling("captain") /\ AboveCeiling("handler")) =>
                   ReportsCeiling(result, 2, "handlers")
            /\ (~AboveCeiling("captain") /\ ~AboveCeiling("handler") /\ AboveCeiling("cutter")) =>
                   ReportsCeiling(result, 2, "cutters")
            /\ (~AboveCeiling("captain") /\ ~AboveCeiling("handler") /\ ~AboveCeiling("cutter")
                /\ AboveCeiling("defender")) =>
                   ReportsCeiling(result, 2, "defenders")
            /\ ((\A q \in RosterPositions : ~AboveCeiling(q)) /\ CandidateCost > 70) =>
                   ReportsBudget(result)
            /\ ReportsBudget(result) => \A q \in RosterPositions : ~AboveCeiling(q)
            /\ candidate = << [position |-> "captain", price |-> 80] >> => ReportsBudget(result)

\* three cutters and three defenders costing 480: the cutters are reported
CuttersReportedOverBudget ==
    /\ validation # << >>
    /\ PlayersAt("cutter") = 3
    /\ PlayersAt("defender") = 3
    /\ CandidateCost = 480
    /\ ReportsCeiling(validation[1], 2, "cutters")

(***************************************************************************)
(* C14: validateRoster returns isValid = TRUE exactly when the candidate   *)
(* has at most 1 captain, 2 handlers, 2 cutters, 2 defenders and a total   *)
(* price of at most 70, so for the empty roster and for a roster costing   *)
(* exactly 70; an error is present exactly when isValid is FALSE.          *)
(***************************************************************************)
ValidExactlyWithinLimits ==
    validation # << >> =>
        LET result == validation[1]
        IN  /\ result.isValid <=>
                   /\ PlayersAt("captain") <= 1
                   /\ PlayersAt("handler") <= 2
                   /\ PlayersAt("cutter") <= 2
                   /\ PlayersAt("defender") <= 2
                   /\ CandidateCost <= 70
            /\ (result.error # undefined) <=> ~result.isValid
            /\ candidate = << >> => result.isValid

\* the full roster of seven players of price 10, costing 70, found valid
FullRosterAtBudgetValid ==
    /\ validation # << >>
    /\ Len(candidate) = 7
    /\ CandidateCost = 70
    /\ validation[1].isValid

(***************************************************************************)
(* The roster of the LeagueDetail page (pages/LeagueDetail.tsx).  The rows *)
(* of roster_players live in the backend; the page keeps a copy of them in *)
(* its roster state and checks every addition against that copy.  A        *)
(* handler runs up to its next request in one step, and the answer of the  *)
(* request is a step of its own, so that the requests of two operations    *)
(* can be answered in any order.                                           *)
(***************************************************************************)
libraryVars == <<scoreVars, aggregatorVars, priceVars, validateVars>>
notRosterVars == <<libraryVars, authVars, statsVars, route, tableVars, homeVars, joinPageVars,
                   detailVars>>

NoLibraryInput ==
    /\ stat = ZeroStats /\ scores = NoScores
    /\ playerStats = << >> /\ tournamentMap = << >> /\ statsResults = << >>
    /\ playerScores = << >> /\ priceResults = << >>
    /\ NoValidateInput

Msg(text) == [text |-> text, args |-> << >>]

\* err.message || fallback
MessageOr(err, fallback) == IF err.message = "" THEN Msg(fallback) ELSE Msg(err.message)

\* the { data, error } of a request: error is null, or an object with a message
Answers == {[error |-> e] : e \in {null, Some([message |-> ""]), Some([message |-> "request failed"])}}

\* the user of supabase.auth.getUser(): null without a session
Sessions == {null, Some("user")}

\* the priced players of the league; calculatePlayerPrices gives prices from 1,
\* for the lowest captain score, to 20, for the highest
salaryCapStats ==
    << [player_name |-> "Ann", player_team |-> "AUBURN", price |-> 20],
       [player_name |-> "Bo", player_team |-> "AUBURN", price |-> 20],
       [player_name |-> "Cy", player_team |-> "ALABAMA", price |-> 20],
       [player_name |-> "Di", player_team |-> "MSU", price |-> 11],
       [player_name |-> "Ed", player_team |-> "MSU", price |-> 1] >>

\* the players of the list the user clicks
SalaryCapPlayers == {salaryCapStats[i] : i \in 1..4}

\* `${p.player_name}|${p.player_team}`
RosterKey(p) == p.player_name \o "|" \o p.player_team

\* playerStats?.price || 0, for the first player of salaryCapStats with the key of the row
PriceOrZero(rosterPlayer) ==
    LET found == SelectSeq(salaryCapStats, LAMBDA p : RosterKey(p) = RosterKey(rosterPlayer))
    IN  IF found = << >> THEN 0 ELSE found[1].price

EnrichedRoster(data) ==
    [i \in 1..Len(data) |->
        [id |-> data[i].id,
         player_name |-> data[i].player_name,
         player_team |-> data[i].player_team,
         position |-> data[i].position,
         price |-> PriceOrZero(data[i])]]

PositionLimitError(position, plural) ==
    [text |-> "You can only have ${n} " \o plural, args |-> << SALARY_CAP_ROSTER[position] >>]

\* a slip: the extended roster is not validated
AddRejectionWithoutValidation(roster, player, position, user) ==
    LET positionCounts ==
            [q \in RosterPositions |-> Len(SelectSeq(roster, LAMBDA p : p.position = q))]
    IN  IF user = null
        THEN Some(Msg("You must be logged in to manage your roster"))
        ELSE IF \E i \in 1..Len(roster) :
                    /\ roster[i].player_name = player.player_name
                    /\ roster[i].player_team = player.player_team
        THEN Some(Msg("Player is already in your roster"))
        ELSE IF position = "captain" /\ positionCounts.captain >= SALARY_CAP_ROSTER.captain
        THEN Some(PositionLimitError("captain", "captain"))
        ELSE IF position = "handler" /\ positionCounts.handler >= SALARY_CAP_ROSTER.handler
        THEN Some(PositionLimitError("handler", "handlers"))
        ELSE IF position = "cutter" /\ positionCounts.cutter >= SALARY_CAP_ROSTER.cutter
        THEN Some(PositionLimitError("cutter", "cutters"))
        ELSE IF position = "defender" /\ positionCounts.defender >= SALARY_CAP_ROSTER.defender
        THEN Some(PositionLimitError("defender", "defenders"))
        ELSE null

\* the checks of addPlayerToRoster before its insert: the message of the first
\* check that refuses the player, null when none does
AddRejection(roster, player, position, user) ==
    LET positionCounts ==
            [q \in RosterPositions |-> Len(SelectSeq(roster, LAMBDA p : p.position = q))]
        newRoster ==
            Append([i \in 1..Len(roster) |-> [position |-> roster[i].position, price |-> roster[i].price]],
                   [position |-> position, price |-> player.price])
        validationOfNew == validateRoster(newRoster)
    IN  IF user = null
        THEN Some(Msg("You must be logged in to manage your roster"))
        ELSE IF \E i \in 1..Len(roster) :
                    /\ roster[i].player_name = player.player_name
                    /\ roster[i].player_team = player.player_team
        THEN Some(Msg("Player is already in your roster"))
        ELSE IF position = "captain" /\ positionCounts.captain >= SALARY_CAP_ROSTER.captain
        THEN Some(PositionLimitError("captain", "captain"))
        ELSE IF position = "handler" /\ positionCounts.handler >= SALARY_CAP_ROSTER.handler
        THEN Some(PositionLimitError("handler", "handlers"))
        ELSE IF position = "cutter" /\ positionCounts.cutter >= SALARY_CAP_ROSTER.cutter
        THEN Some(PositionLimitError("cutter", "cutters"))
        ELSE IF position = "defender" /\ positionCounts.defender >= SALARY_CAP_ROSTER.defender
        THEN Some(PositionLimitError("defender", "defenders"))
        ELSE IF ~validationOfNew.isValid
        THEN IF validationOfNew.error = undefined
             THEN Some(Msg("Cannot add player"))
             ELSE validationOfNew.error
        ELSE null

RosterOp(kind, pc, player_name, player_team, position, id) ==
    [kind |-> kind, pc |-> pc, player_name |-> player_name, player_team |-> player_team,
     position |-> position, id |-> id]

RemoveAt(s, i) == SubSeq(s, 1, i - 1) \o SubSeq(s, i + 1, Len(s))

\* addPlayerToRoster up to its insert request; roster is the state of the
\* render whose handler was called
addPlayerToRoster(player, position, user) ==
    LET rejection == AddRejection(localRoster, player, position, user)
    IN  /\ Len(rosterOps) < MaxInFlight
        /\ IF rejection # null
           THEN rosterError' = rejection /\ UNCHANGED rosterOps
           ELSE /\ rosterError' = null
                /\ rosterOps' = Append(rosterOps,
                       RosterOp("add", "insert", player.player_name, player.player_team, position, 0))
        /\ UNCHANGED <<roster_players, localRoster, nextRosterId, loadingRoster, notRosterVars>>

\* the answer of the insert: on success loadRoster starts, on an error the
\* catch block of addPlayerToRoster sets rosterError
InsertAnswered(i, answer) ==
    /\ i \in 1..Len(rosterOps)
    /\ rosterOps[i].pc = "insert"
    /\ IF answer.error = null
       THEN /\ nextRosterId <= MaxInserts
            /\ roster_players' = Append(roster_players,
                   [id |-> nextRosterId,
                    player_name |-> rosterOps[i].player_name,
                    player_team |-> rosterOps[i].player_team,
                    position |-> rosterOps[i].position])
            /\ nextRosterId' = nextRosterId + 1
            /\ rosterOps' = [rosterOps EXCEPT ![i].pc = "reload"]
            /\ rosterError' = null
            /\ loadingRoster' = TRUE
       ELSE /\ rosterError' = Some(MessageOr(answer.error[1], "Failed to add player to roster"))
            /\ rosterOps' = RemoveAt(rosterOps, i)
            /\ UNCHANGED <<roster_players, nextRosterId, loadingRoster>>
    /\ UNCHANGED <<localRoster, selectedPlayer, notRosterVars>>

\* removePlayerFromRoster up to its delete request
removePlayerFromRoster(rosterPlayerId) ==
    /\ Len(rosterOps) < MaxInFlight
    /\ rosterError' = null
    /\ rosterOps' = Append(rosterOps, RosterOp("remove", "delete", "", "", "", rosterPlayerId))
    /\ UNCHANGED <<roster_players, localRoster, nextRosterId, loadingRoster, notRosterVars>>

\* the answer of the delete
DeleteAnswered(i, answer) ==
    /\ i \in 1..Len(rosterOps)
    /\ rosterOps[i].pc = "delete"
    /\ IF answer.error = null
       THEN /\ roster_players' = SelectSeq(roster_players, LAMBDA r : r.id # rosterOps[i].id)
            /\ rosterOps' = [rosterOps EXCEPT ![i].pc = "reload"]
            /\ rosterError' = null
            /\ loadingRoster' = TRUE
       ELSE /\ rosterError' = Some(MessageOr(answer.error[1], "Failed to remove player from roster"))
            /\ rosterOps' = RemoveAt(rosterOps, i)
            /\ UNCHANGED <<roster_players, loadingRoster>>
    /\ UNCHANGED <<localRoster, nextRosterId, selectedPlayer, notRosterVars>>

\* loadRoster after its setRosterError(null): the user, then the rows
loadRoster(i, user, answer) ==
    /\ i \in 1..Len(rosterOps)
    /\ rosterOps[i].pc = "reload"
    /\ IF user = null
       THEN /\ rosterError' = Some(Msg("You must be logged in to view your roster"))
            /\ UNCHANGED localRoster
       ELSE IF answer.error # null
       THEN /\ rosterError' = Some(MessageOr(answer.error[1], "Failed to load roster"))
            /\ UNCHANGED localRoster
       ELSE /\ localRoster' = EnrichedRoster(roster_players)
            /\ UNCHANGED rosterError
    /\ rosterOps' = RemoveAt(rosterOps, i)
    /\ loadingRoster' = FALSE
    /\ UNCHANGED <<roster_players, nextRosterId, selectedPlayer, notRosterVars>>

InitRoster ==
    /\ NoLibraryInput
    /\ route = "/league/:leagueId"
    /\ NoRosterState /\ NoTables /\ NoHomeState /\ NoJoinPageState /\ NoDetailState
    /\ NoAuthState /\ NoStatsState

InRoster(roster, player) ==
    {i \in 1..Len(roster) : /\ roster[i].player_name = player.player_name
                            /\ roster[i].player_team = player.player_team}

\* openPositionModal
openPositionModal(player) ==
    /\ selectedPlayer' = Some(player)
    /\ UNCHANGED <<roster_players, localRoster, rosterError, rosterOps, nextRosterId, loadingRoster,
                   notRosterVars>>

\* handleAddRemoveClick of a row of the player list, which the open modal covers:
\* a player of the roster is removed, for another the modal opens
handleAddRemoveClick(player) ==
    LET found == InRoster(localRoster, player)
    IN  /\ selectedPlayer = null
        /\ IF found # {}
           THEN /\ removePlayerFromRoster(localRoster[CHOOSE i \in found : \A j \in found : i <= j].id)
                /\ UNCHANGED selectedPlayer
           ELSE openPositionModal(player)

\* the click on a slot of the modal, which calls handlePositionSelect when the
\* slot is empty and the position below its ceiling; addPlayerToRoster is not awaited
handlePositionSelect(position, user) ==
    /\ selectedPlayer # null
    /\ Len(SelectSeq(localRoster, LAMBDA p : p.position = position)) < SALARY_CAP_ROSTER[position]
    /\ addPlayerToRoster(selectedPlayer[1], position, user)
    /\ selectedPlayer' = null

\* the close button of the modal
ClosePositionModal ==
    /\ selectedPlayer # null
    /\ selectedPlayer' = null
    /\ UNCHANGED <<roster_players, localRoster, rosterError, rosterOps, nextRosterId, loadingRoster,
                   notRosterVars>>

ClickPlayer == \E player \in SalaryCapPlayers : handleAddRemoveClick(player)

ClickSlot == \E position \in RosterPositions, user \in Sessions : handlePositionSelect(position, user)

BackendAnswers ==
    \E i \in 1..Len(rosterOps), answer \in Answers :
        \/ InsertAnswered(i, answer)
        \/ DeleteAnswered(i, answer)
        \/ \E user \in Sessions : loadRoster(i, user, answer)

\* every operation, its reload included, ends before the user clicks again
NextRoster ==
    \/ rosterOps = << >> /\ ClickPlayer
    \/ rosterOps = << >> /\ ClickSlot
    \/ rosterOps = << >> /\ ClosePositionModal
    \/ BackendAnswers
SpecRoster == InitRoster /\ [][NextRoster]_vars

\* the click on a player who is not in the roster shown
ClickPlayerToAdd ==
    \E player \in SalaryCapPlayers :
        InRoster(localRoster, player) = {} /\ handleAddRemoveClick(player)

AddAnswers ==
    \E i \in 1..Len(rosterOps), answer \in Answers :
        \/ InsertAnswered(i, answer)
        \/ \E user \in Sessions : loadRoster(i, user, answer)

\* additions that overlap: the page does not wait, the user may click while
\* the requests of an earlier addition are unanswered
NextRosterInterleaved ==
    \/ ClickPlayerToAdd
    \/ ClickSlot
    \/ ClosePositionModal
    \/ AddAnswers
SpecRosterInterleaved == InitRoster /\ [][NextRosterInterleaved]_vars

\* rosters the user has built before the page is opened: none, and one that
\* leaves 10 of the budget
SavedRosters ==
    {<< >>,
     << [id |-> 11, player_name |-> "Ann", player_team |-> "AUBURN", position |-> "captain"],
        [id |-> 12, player_name |-> "Bo", player_team |-> "AUBURN", position |-> "handler"],
        [id |-> 13, player_name |-> "Cy", player_team |-> "ALABAMA", position |-> "handler"] >>}

\* the page after the loadRoster of its mount effect
InitRosterLoaded ==
    /\ NoLibraryInput
    /\ roster_players \in SavedRosters
    /\ localRoster = EnrichedRoster(roster_players)
    /\ rosterError = null /\ rosterOps = << >> /\ nextRosterId = 1 /\ selectedPlayer = null
    /\ loadingRoster = FALSE
    /\ route = "/league/:leagueId"
    /\ NoTables /\ NoHomeState /\ NoJoinPageState /\ NoDetailState
    /\ NoAuthState /\ NoStatsState

\* additions only, one after the other
NextRosterAdds ==
    \/ rosterOps = << >> /\ ClickPlayerToAdd
    \/ rosterOps = << >> /\ ClickSlot
    \/ AddAnswers
SpecRosterAdds == InitRosterLoaded /\ [][NextRosterAdds]_vars

(***************************************************************************)
(* What the roster properties speak of.                                    *)
(***************************************************************************)
RowsAt(rows, position) == {i \in 1..Len(rows) : rows[i].position = position}

RECURSIVE PriceOfRows(_)
PriceOfRows(rows) ==
    IF rows = << >> THEN 0 ELSE PriceOrZero(Head(rows)) + PriceOfRows(Tail(rows))

PersistedWithinLimits ==
    /\ \A position \in RosterPositions :
           Cardinality(RowsAt(roster_players, position)) <= SALARY_CAP_ROSTER[position]
    /\ PriceOfRows(roster_players) <= SALARY_CAP_BUDGET
    /\ \A i, j \in 1..Len(roster_players) :
           /\ roster_players[i].player_name = roster_players[j].player_name
           /\ roster_players[i].player_team = roster_players[j].player_team
           => i = j

\* C15: when the operations of the user run one after the other, the rows
\* of roster_players left by a finished operation hold at most 1 captain,
\* 2 handlers, 2 cutters and 2 defenders, cost at most 70 and name no player twice.
SequentialOperationsKeepLimits == rosterOps = << >> => PersistedWithinLimits

\* C19: when additions of the user overlap, so that two of them are checked
\* against the same roster state, the rows of roster_players still never
\* exceed a ceiling or the budget and never name a player twice.
OverlappingAddsKeepLimits == PersistedWithinLimits

\* the four reasons for which an addition is refused
RefusedAdd(roster, player, position, user) ==
    \/ user = null
    \/ InRoster(roster, player) # {}
    \/ Cardinality(RowsAt(roster, position)) >= SALARY_CAP_ROSTER[position]
    \/ ~validateRoster(Append([i \in 1..Len(roster) |->
                                  [position |-> roster[i].position, price |-> roster[i].price]],
                              [position |-> position, price |-> player.price])).isValid

PageUser == "user"

\* String.prototype.trim, for strings of letters, digits and spaces
RECURSIVE TrimStart(_)
TrimStart(s) == IF s # << >> /\ Head(s) = 32 THEN TrimStart(Tail(s)) ELSE s
RECURSIVE TrimEnd(_)
TrimEnd(s) == IF s # << >> /\ Last(s) = 32 THEN TrimEnd(SubSeq(s, 1, Len(s) - 1)) ELSE s
Trim(s) == TrimEnd(TrimStart(s))

\* String.prototype.toUpperCase, for strings of letters, digits and spaces
ToUpperCase(s) == [i \in 1..Len(s) |-> IF s[i] \in 97..122 THEN s[i] - 32 ELSE s[i]]

\* 'ABCDEFGHIJKLMNOPQRSTUVWXYZ0123456789'
CodeChars == [i \in 0..35 |-> IF i < 26 THEN 65 + i ELSE 48 + (i - 26)]

\* Math.floor(Math.random() * chars.length), once per character: the runs of
\* draws the model makes are the first index every time and the last every time
RandomDraws(length) == {[i \in 1..length |-> 0], [i \in 1..length |-> 35]}

\* the codes generateLeagueCode(length) may return
generateLeagueCode(length) ==
    {[i \in 1..length |-> CodeChars[draw[i]]] : draw \in RandomDraws(length)}

CodeAAAAAA == [i \in 1..6 |-> 65]
Code999999 == [i \in 1..6 |-> 57]

\* what the user types into the join form, or what the link of the join page carries
JoinCodes ==
    {EmptyStr, << 32, 32 >>,
     << 32 >> \o [i \in 1..6 |-> 97] \o << 32 >>,     \* " aaaaaa "
     CodeAAAAAA, Code999999, << 66 >>}

LeaguesWithCode(code) == SelectSeq(leagues, LAMBDA l : l.code = code)

ParticipantRows(participants, league_id, user_id) ==
    SelectSeq(participants, LAMBDA r : r.league_id = league_id /\ r.user_id = user_id)

\* the data of a request that ends in .single(): the row when the request is
\* answered and exactly one row matches, null otherwise
Single(rows, answer) == IF answer.error = null /\ Len(rows) = 1 THEN Some(rows[1]) ELSE null

\* data.map(item => item.leagues).filter(Boolean) of the rows of the user
JoinedLeagues(participants, user_id) ==
    LET rows == SelectSeq(participants,
                    LAMBDA r : r.user_id = user_id /\ \E i \in 1..Len(leagues) : leagues[i].id = r.league_id)
    IN  [i \in 1..Len(rows) |-> leagues[CHOOSE j \in 1..Len(leagues) : leagues[j].id = rows[i].league_id]]

\* the userLeagues state after loadUserLeagues, run against the given rows
LoadedUserLeagues(participants, user, answer) ==
    IF user = null \/ answer.error # null THEN userLeagues
    ELSE JoinedLeagues(participants, user[1])

\* Home.loadUserLeagues: the catch block only writes to the console
loadUserLeagues(user, answer) ==
    /\ userLeagues' = LoadedUserLeagues(league_participants, user, answer)
    /\ loadingLeagues' = FALSE
    /\ UNCHANGED <<createError, createdLeague, joinError, joinSuccess, createLoading, joinLoading,
                   createOps>>
    /\ UNCHANGED <<libraryVars, authVars, statsVars, route, rosterVars, tableVars, joinPageVars, detailVars>>

JoinedMessage(league) ==
    [text |-> "Successfully joined \"${league.name}\"!", args |-> << league.name >>]

\* Home.handleJoinLeague, from the submit of the form to its finally block
handleJoinLeague(joinCode, user, leagueAnswer, existingAnswer, insertAnswer, leaguesAnswer) ==
    LET league == Single(LeaguesWithCode(ToUpperCase(Trim(joinCode))), leagueAnswer)
        existing == Single(ParticipantRows(league_participants, league[1].id, user[1]), existingAnswer)
        joined == Append(league_participants, [league_id |-> league[1].id, user_id |-> user[1]])
    IN  /\ IF Trim(joinCode) = EmptyStr
           THEN /\ joinError' = Some(Msg("Please enter a league code"))
                /\ joinSuccess' = null
                /\ UNCHANGED <<league_participants, userLeagues, loadingLeagues>>
           ELSE IF user = null
           THEN /\ joinError' = Some(Msg("You must be logged in to join a league"))
                /\ joinSuccess' = null
                /\ UNCHANGED <<league_participants, userLeagues, loadingLeagues>>
           ELSE IF league = null
           THEN /\ joinError' = Some(Msg("League code not found"))
                /\ joinSuccess' = null
                /\ UNCHANGED <<league_participants, userLeagues, loadingLeagues>>
           ELSE IF existing # null
           THEN /\ joinError' = Some(Msg("You are already in this league"))
                /\ joinSuccess' = null
                /\ UNCHANGED <<league_participants, userLeagues, loadingLeagues>>
           ELSE IF insertAnswer.error # null
           THEN /\ joinError' = Some(MessageOr(insertAnswer.error[1], "Failed to join league"))
                /\ joinSuccess' = null
                /\ UNCHANGED <<league_participants, userLeagues, loadingLeagues>>
           ELSE /\ Len(league_participants) < MaxParticipants
                /\ league_participants' = joined
                /\ joinError' = null
                /\ joinSuccess' = Some(JoinedMessage(league[1]))
                /\ userLeagues' = LoadedUserLeagues(joined, user, leaguesAnswer)
                /\ loadingLeagues' = FALSE
        /\ joinLoading' = FALSE
        /\ UNCHANGED <<leagues, nextLeagueId, createError, createdLeague, createLoading, createOps>>
        /\ UNCHANGED <<libraryVars, authVars, statsVars, route, rosterVars, joinPageVars, detailVars>>

\* the timer of handleJoinLeague: setJoinSuccess(null) after 3 seconds
ClearJoinSuccess ==
    /\ joinSuccess # null
    /\ joinSuccess' = null
    /\ UNCHANGED <<createError, createdLeague, joinError, userLeagues, loadingLeagues, createLoading,
                   joinLoading, createOps>>
    /\ UNCHANGED <<libraryVars, authVars, statsVars, route, rosterVars, tableVars, joinPageVars, detailVars>>

\* JoinLeague.loadLeague, for the code of the link
joinPageLoadLeague(code, user, leagueAnswer, existingAnswer) ==
    LET leagueData == Single(LeaguesWithCode(ToUpperCase(Trim(code))), leagueAnswer)
        existing == Single(ParticipantRows(league_participants, leagueData[1].id, user[1]), existingAnswer)
    IN  /\ code # EmptyStr
        /\ IF user = null
           THEN /\ joinPageError' = Some(Msg("You must be logged in to join a league"))
                /\ UNCHANGED <<joinPageLeague, isAlreadyMember>>
           ELSE IF leagueData = null
           THEN /\ joinPageError' = Some(Msg("League code not found"))
                /\ UNCHANGED <<joinPageLeague, isAlreadyMember>>
           ELSE /\ joinPageError' = null
                /\ joinPageLeague' = leagueData
                /\ isAlreadyMember' = (isAlreadyMember \/ existing # null)
        /\ joinPageLoading' = FALSE
        /\ UNCHANGED <<joinPageSuccess, joining>>
        /\ UNCHANGED <<libraryVars, authVars, statsVars, route, rosterVars, tableVars, homeVars, detailVars>>

\* JoinLeague.handleJoin, from the press of the button to its finally block
handleJoin(user, existingAnswer, insertAnswer) ==
    LET league == joinPageLeague[1]
        existing == Single(ParticipantRows(league_participants, league.id, user[1]), existingAnswer)
    IN  /\ joinPageLeague # null
        /\ IF user = null
           THEN /\ joinPageError' = Some(Msg("You must be logged in to join a league"))
                /\ UNCHANGED <<league_participants, joinPageSuccess, isAlreadyMember>>
           ELSE IF existing # null
           THEN /\ joinPageError' = Some(Msg("You are already in this league"))
                /\ isAlreadyMember' = TRUE
                /\ UNCHANGED <<league_participants, joinPageSuccess>>
           ELSE IF insertAnswer.error # null
           THEN /\ joinPageError' = Some(MessageOr(insertAnswer.error[1], "Failed to join league"))
                /\ UNCHANGED <<league_participants, joinPageSuccess, isAlreadyMember>>
           ELSE /\ Len(league_participants) < MaxParticipants
                /\ league_participants' =
                       Append(league_participants, [league_id |-> league.id, user_id |-> user[1]])
                /\ joinPageError' = null
                /\ joinPageSuccess' = TRUE
                /\ UNCHANGED isAlreadyMember
        /\ joining' = FALSE
        /\ UNCHANGED <<leagues, nextLeagueId, joinPageLeague, joinPageLoading>>
        /\ UNCHANGED <<libraryVars, authVars, statsVars, route, rosterVars, homeVars, detailVars>>

\* two leagues are there to be joined; the user moves between the Home page
\* and the join page of the league's link
TheLeague == [id |-> 1, code |-> CodeAAAAAA, name |-> << 73, 66 >>]
OtherLeague == [id |-> 2, code |-> Code999999, name |-> << 69, 67 >>]

\* the router shows another page: the state of the page left is lost
Navigate(to) ==
    /\ route # to
    /\ route' = to
    /\ createError' = null /\ createdLeague' = null /\ joinError' = null /\ joinSuccess' = null
    /\ userLeagues' = << >> /\ loadingLeagues' = TRUE
    /\ joinPageError' = null /\ joinPageSuccess' = FALSE /\ joinPageLeague' = null
    /\ isAlreadyMember' = FALSE
    /\ createLoading' = FALSE /\ joinLoading' = FALSE
    /\ joinPageLoading' = TRUE /\ joining' = FALSE
    /\ UNCHANGED <<libraryVars, authVars, statsVars, rosterVars, tableVars, createOps, detailVars>>

InitJoin ==
    /\ NoLibraryInput /\ NoRosterState /\ NoHomeState /\ NoJoinPageState /\ NoDetailState
    /\ NoAuthState /\ NoStatsState
    /\ route = "/"
    /\ leagues = << TheLeague, OtherLeague >> /\ league_participants = << >> /\ nextLeagueId = 3

SubmitJoinForm ==
    \E joinCode \in JoinCodes, user \in Sessions,
       leagueAnswer \in Answers, existingAnswer \in Answers,
       insertAnswer \in Answers, leaguesAnswer \in Answers :
        handleJoinLeague(joinCode, user, leagueAnswer, existingAnswer, insertAnswer, leaguesAnswer)

OpenJoinLink ==
    \E code \in JoinCodes, user \in Sessions, leagueAnswer \in Answers, existingAnswer \in Answers :
        joinPageLoadLeague(code, user, leagueAnswer, existingAnswer)

PressJoin ==
    \E user \in Sessions, existingAnswer \in Answers, insertAnswer \in Answers :
        handleJoin(user, existingAnswer, insertAnswer)

NextJoin ==
    \/ route = "/" /\ SubmitJoinForm
    \/ route = "/" /\ ClearJoinSuccess
    \/ route = "/join" /\ OpenJoinLink
    \/ route = "/join" /\ PressJoin
    \/ \E to \in {"/", "/join"} : Navigate(to)
SpecJoin == InitJoin /\ [][NextJoin]_vars

(***************************************************************************)
(* The creation of a league (Home.handleCreateLeague).  The handler looks  *)
(* for a free code with one request per code, then inserts the league and  *)
(* its creator; each answer is a step, so that the executions of several   *)
(* users can be answered in any order.  The Home state written is that of  *)
(* PageUser; the pages of the other users are not kept.                    *)
(***************************************************************************)
Users == {PageUser, "other"}

\* what the user types into the create form
LeagueNames == {EmptyStr, << 32 >>, << 73, 66 >>}
TeamSelections == {<< >>, << "AUBURN" >>}

\* an execution of handleCreateLeague that waits for an answer; the locals
\* it will not read again are cleared
CreateOp(who, name, code, attempts, pc, league) ==
    [who |-> who, name |-> name, code |-> code, attempts |-> attempts, pc |-> pc, league |-> league]

\* the value of a state of the Home page after a handler of `who` sets it
HomeSet(who, old, new) == IF who = PageUser THEN new ELSE old

\* handleCreateLeague up to the first request of its loop
handleCreateLeague(who, leagueName, selectedTeams, user, code) ==
    /\ IF Trim(leagueName) = EmptyStr
       THEN /\ createError' = HomeSet(who, createError, Some(Msg("League name is required")))
            /\ createLoading' = HomeSet(who, createLoading, FALSE)
            /\ UNCHANGED createOps
       ELSE IF Len(selectedTeams) = 0
       THEN /\ createError' = HomeSet(who, createError, Some(Msg("Please select at least one team")))
            /\ createLoading' = HomeSet(who, createLoading, FALSE)
            /\ UNCHANGED createOps
       ELSE IF user = null
       THEN /\ createError' = HomeSet(who, createError,
                                  Some(Msg("You must be logged in to create a league")))
            /\ createLoading' = HomeSet(who, createLoading, FALSE)
            /\ UNCHANGED createOps
       ELSE /\ createError' = HomeSet(who, createError, null)
            /\ createLoading' = HomeSet(who, createLoading, TRUE)
            /\ createOps' = Append(createOps, CreateOp(who, Trim(leagueName), code, 0, "lookup", null))
    /\ UNCHANGED <<createdLeague, joinError, joinSuccess, userLeagues, loadingLeagues, joinLoading>>
    /\ UNCHANGED <<libraryVars, authVars, statsVars, route, rosterVars, tableVars, joinPageVars, detailVars>>

\* the answer of one lookup of the loop: the code is taken when no row comes
\* back, else another code is drawn, up to 10 times
CodeLookupAnswered(i, answer, newCode) ==
    LET op == createOps[i]
        existing == Single(LeaguesWithCode(op.code), answer)
    IN  /\ op.pc = "lookup"
        /\ IF existing = null
           THEN /\ createOps' = [createOps EXCEPT ![i].pc = "insert", ![i].attempts = 0]
                /\ UNCHANGED <<createError, createLoading>>
           ELSE IF op.attempts + 1 < 10
           THEN /\ createOps' = [createOps EXCEPT ![i].code = newCode, ![i].attempts = op.attempts + 1]
                /\ UNCHANGED <<createError, createLoading>>
           ELSE /\ createOps' = RemoveAt(createOps, i)
                /\ createError' = HomeSet(op.who, createError,
                       Some(Msg("Failed to generate unique code. Please try again.")))
                /\ createLoading' = HomeSet(op.who, createLoading, FALSE)
        /\ UNCHANGED <<createdLeague, joinError, joinSuccess, userLeagues, loadingLeagues, joinLoading>>
        /\ UNCHANGED <<libraryVars, authVars, statsVars, route, rosterVars, tableVars,
                       joinPageVars, detailVars>>

\* the answer of the insert into leagues
LeagueInsertAnswered(i, answer) ==
    LET op == createOps[i]
    IN  /\ op.pc = "insert"
        /\ IF answer.error # null
           THEN /\ createError' = HomeSet(op.who, createError,
                       Some(MessageOr(answer.error[1], "Failed to create league")))
                /\ createLoading' = HomeSet(op.who, createLoading, FALSE)
                /\ createOps' = RemoveAt(createOps, i)
                /\ UNCHANGED <<leagues, nextLeagueId>>
           ELSE /\ Len(leagues) < MaxLeagues
                /\ leagues' = Append(leagues, [id |-> nextLeagueId, code |-> op.code, name |-> op.name])
                /\ nextLeagueId' = nextLeagueId + 1
                /\ createOps' = [createOps EXCEPT ![i] =
                       CreateOp(op.who, EmptyStr, EmptyStr, 0, "participant", Some(nextLeagueId))]
                /\ UNCHANGED <<createError, createLoading>>
        /\ UNCHANGED <<league_participants, createdLeague, joinError, joinSuccess, userLeagues,
                       loadingLeagues, joinLoading>>
        /\ UNCHANGED <<libraryVars, authVars, statsVars, route, rosterVars, joinPageVars, detailVars>>

\* the answer of the insert of the creator into league_participants, which the
\* handler does not look at, and the loadUserLeagues that ends the handler
ParticipantInsertAnswered(i, insertAnswer, user, leaguesAnswer) ==
    LET op == createOps[i]
        data == CHOOSE l \in {leagues[j] : j \in 1..Len(leagues)} : l.id = op.league[1]
        joined == IF insertAnswer.error = null
                  THEN Append(league_participants, [league_id |-> data.id, user_id |-> op.who])
                  ELSE league_participants
    IN  /\ op.pc = "participant"
        /\ insertAnswer.error = null => Len(league_participants) < MaxParticipants
        /\ league_participants' = joined
        /\ createdLeague' = HomeSet(op.who, createdLeague, Some(data))
        /\ userLeagues' = HomeSet(op.who, userLeagues, LoadedUserLeagues(joined, user, leaguesAnswer))
        /\ loadingLeagues' = HomeSet(op.who, loadingLeagues, FALSE)
        /\ createLoading' = HomeSet(op.who, createLoading, FALSE)
        /\ createOps' = RemoveAt(createOps, i)
        /\ UNCHANGED <<leagues, nextLeagueId, createError, joinError, joinSuccess, joinLoading>>
        /\ UNCHANGED <<libraryVars, authVars, statsVars, route, rosterVars, joinPageVars, detailVars>>

\* a user submits the create form, whose button is disabled while an
\* execution of the user runs; no execution starts that the table could not hold
SubmitCreateForm(who) ==
    /\ \A i \in 1..Len(createOps) : createOps[i].who # who
    /\ Len(leagues) + Len(createOps) < MaxLeagues
    /\ \E leagueName \in LeagueNames, selectedTeams \in TeamSelections,
          user \in {null, Some(who)}, code \in generateLeagueCode(6) :
           handleCreateLeague(who, leagueName, selectedTeams, user, code)

CreateAnswers ==
    \E i \in 1..Len(createOps), answer \in Answers :
        \/ \E newCode \in generateLeagueCode(6) : CodeLookupAnswered(i, answer, newCode)
        \/ LeagueInsertAnswered(i, answer)
        \/ \E user \in {null, Some(createOps[i].who)}, leaguesAnswer \in Answers :
               ParticipantInsertAnswered(i, answer, user, leaguesAnswer)

\* the users create leagues at the same time
InitCreate ==
    /\ NoLibraryInput /\ NoRosterState /\ NoTables /\ NoHomeState /\ NoJoinPageState /\ NoDetailState
    /\ NoAuthState /\ NoStatsState
    /\ route = "/"
NextCreate ==
    \/ \E who \in Users : SubmitCreateForm(who)
    \/ CreateAnswers
SpecCreate == InitCreate /\ [][NextCreate]_vars

\* C18: no two rows of leagues have the same code, however the executions
\* of handleCreateLeague of the users interleave.
LeagueCodesUnique ==
    \A i, j \in 1..Len(leagues) : leagues[i].code = leagues[j].code => i = j

\* the message of the loop that found ten codes taken
NoUniqueCode == Some(Msg("Failed to generate unique code. Please try again."))

\* the lookup of execution i is answered and the execution goes on to insert
AcceptsCode(i) ==
    /\ Len(createOps') = Len(createOps)
    /\ createOps'[i].pc = "insert"
    /\ createOps'[i].code = createOps[i].code

\* the lookup of execution i is answered and the execution ends, nothing inserted
GivesUp(i) ==
    /\ createOps' = RemoveAt(createOps, i)
    /\ leagues' = leagues
    /\ createOps[i].who = PageUser => createError' = NoUniqueCode

\* C21: an execution of handleCreateLeague sends at most 10 lookups; it goes
\* on to insert only the code of a lookup that came back without a league,
\* and never a code that a league has; when the tenth code in a row is that
\* of a league, the execution ends with the error 'Failed to generate unique
\* code. Please try again.' and inserts nothing.
CodeLoopEndsWithFreeCode ==
    [][\A i \in 1..Len(createOps), answer \in Answers, newCode \in generateLeagueCode(6) :
          CodeLookupAnswered(i, answer, newCode) =>
              /\ createOps[i].attempts < 10
              /\ AcceptsCode(i) => Single(LeaguesWithCode(createOps[i].code), answer) = null
              /\ LeaguesWithCode(createOps[i].code) # << >> => ~AcceptsCode(i)
              /\ (LeaguesWithCode(createOps[i].code) # << >> /\ createOps[i].attempts = 9)
                     => GivesUp(i)]_vars

\* C22: when an execution of handleCreateLeague of the user ends in success,
\* with createdLeague set, league_participants holds a row for the new league
\* and its creator: no league is shown as created without its creator as member.
CreatorIsMemberOnSuccess ==
    [][\A i \in 1..Len(createOps), insertAnswer \in Answers, user \in Sessions,
          leaguesAnswer \in Answers :
          (/\ createOps[i].who = PageUser
           /\ ParticipantInsertAnswered(i, insertAnswer, user, leaguesAnswer))
          => /\ createdLeague' # null
             /\ ParticipantRows(league_participants', createdLeague'[1].id, PageUser) # << >>]_vars

(***************************************************************************)
(* The pages together.  LeagueDetail.loadLeague reads the league of the    *)
(* page; the router shows one page, and a run stays on the page it opens.  *)
(***************************************************************************)
\* the error of a request that ends in .single()
SingleError(rows, answer) ==
    IF answer.error # null THEN answer.error
    ELSE IF Len(rows) # 1
    THEN Some([message |-> "JSON object requested, multiple (or no) rows returned"])
    ELSE null

\* LeagueDetail.loadLeague with setLoading(false) at the end of the try block
detailLoadLeagueWithoutFinally(leagueId, answer) ==
    LET rows == SelectSeq(leagues, LAMBDA l : l.id = leagueId)
        leagueError == SingleError(rows, answer)
    IN  /\ IF leagueError # null
           THEN /\ detailError' = Some(MessageOr(leagueError[1], "Failed to load league"))
                /\ UNCHANGED <<detailLeague, detailLoading>>
           ELSE /\ detailError' = null
                /\ detailLeague' = Some(rows[1])
                /\ detailLoading' = FALSE
        /\ UNCHANGED <<libraryVars, authVars, statsVars, route, rosterVars, tableVars, homeVars,
                       joinPageVars>>

\* LeagueDetail.loadLeague
detailLoadLeague(leagueId, answer) ==
    LET rows == SelectSeq(leagues, LAMBDA l : l.id = leagueId)
        leagueError == SingleError(rows, answer)
    IN  /\ IF leagueError # null
           THEN /\ detailError' = Some(MessageOr(leagueError[1], "Failed to load league"))
                /\ UNCHANGED detailLeague
           ELSE /\ detailError' = null
                /\ detailLeague' = Some(rows[1])
        /\ detailLoading' = FALSE
        /\ UNCHANGED <<libraryVars, authVars, statsVars, route, rosterVars, tableVars, homeVars,
                       joinPageVars>>

\* the ids of the links to a league page: one of a league, one of none
LeagueIds == {TheLeague.id, 0}

OpenHome == \E user \in Sessions, answer \in Answers : loadUserLeagues(user, answer)

OpenLeague == \E leagueId \in LeagueIds, answer \in Answers : detailLoadLeague(leagueId, answer)

InitPages ==
    /\ NoLibraryInput /\ NoRosterState /\ NoHomeState /\ NoJoinPageState /\ NoDetailState
    /\ NoAuthState /\ NoStatsState
    /\ route \in {"/", "/join", "/league/:leagueId"}
    /\ leagues = << TheLeague >> /\ league_participants = << >> /\ nextLeagueId = 2

\* every handler runs to its end before the next one starts; the league page
\* shows its roster once its league is loaded
NextPages ==
    \/ route = "/" /\ createOps = << >> /\ OpenHome
    \/ route = "/" /\ createOps = << >> /\ SubmitCreateForm(PageUser)
    \/ route = "/" /\ CreateAnswers
    \/ route = "/" /\ createOps = << >> /\ SubmitJoinForm
    \/ route = "/" /\ ClearJoinSuccess
    \/ route = "/join" /\ OpenJoinLink
    \/ route = "/join" /\ PressJoin
    \/ route = "/league/:leagueId" /\ detailLeague = null /\ OpenLeague
    \/ route = "/league/:leagueId" /\ detailLeague # null /\ NextRoster
SpecPages == InitPages /\ [][NextPages]_vars

(***************************************************************************)
(* What the property of the failed requests speaks of: for each handler,   *)
(* the requests it sends on the way it takes, and whether one of them was  *)
(* answered with an error.                                                 *)
(***************************************************************************)
Failed(answer) == answer.error # null

JoinFormRequestFailed(joinCode, user, leagueAnswer, existingAnswer, insertAnswer, leaguesAnswer) ==
    LET lookedUp == Trim(joinCode) # EmptyStr /\ user # null
        league == Single(LeaguesWithCode(ToUpperCase(Trim(joinCode))), leagueAnswer)
        checked == lookedUp /\ league # null
        existing == Single(ParticipantRows(league_participants, league[1].id, user[1]), existingAnswer)
        inserted == checked /\ existing = null
        reloaded == inserted /\ ~Failed(insertAnswer)
    IN  \/ lookedUp /\ Failed(leagueAnswer)
        \/ checked /\ Failed(existingAnswer)
        \/ inserted /\ Failed(insertAnswer)
        \/ reloaded /\ Failed(leaguesAnswer)

JoinLinkRequestFailed(code, user, leagueAnswer, existingAnswer) ==
    LET leagueData == Single(LeaguesWithCode(ToUpperCase(Trim(code))), leagueAnswer)
    IN  /\ user # null
        /\ Failed(leagueAnswer) \/ (leagueData # null /\ Failed(existingAnswer))

JoinButtonRequestFailed(user, existingAnswer, insertAnswer) ==
    LET existing == Single(ParticipantRows(league_participants, joinPageLeague[1].id, user[1]),
                           existingAnswer)
    IN  /\ user # null
        /\ Failed(existingAnswer) \/ (existing = null /\ Failed(insertAnswer))

\* C17: a handler that ends after one of its requests to the backend was
\* answered with an error leaves a message in the error state of its page:
\* createError or joinError on Home, error on the join page and on the league
\* page, rosterError for the roster.
FailedRequestsAreShown ==
    [][/\ \A user \in Sessions, answer \in Answers :
              (user # null /\ Failed(answer) /\ loadUserLeagues(user, answer))
              => (createError' # null \/ joinError' # null)
       /\ \A i \in 1..Len(createOps), answer \in Answers :
              (Failed(answer) /\ LeagueInsertAnswered(i, answer)) => createError' # null
       /\ \A i \in 1..Len(createOps), insertAnswer \in Answers, user \in Sessions,
             leaguesAnswer \in Answers :
              (/\ createOps[i].who = PageUser
               /\ Failed(insertAnswer) \/ (user # null /\ Failed(leaguesAnswer))
               /\ ParticipantInsertAnswered(i, insertAnswer, user, leaguesAnswer))
              => createError' # null
       /\ \A joinCode \in JoinCodes, user \in Sessions, leagueAnswer \in Answers,
             existingAnswer \in Answers, insertAnswer \in Answers, leaguesAnswer \in Answers :
              (/\ JoinFormRequestFailed(joinCode, user, leagueAnswer, existingAnswer,
                                        insertAnswer, leaguesAnswer)
               /\ handleJoinLeague(joinCode, user, leagueAnswer, existingAnswer,
                                   insertAnswer, leaguesAnswer))
              => joinError' # null
       /\ \A code \in JoinCodes, user \in Sessions, leagueAnswer \in Answers,
             existingAnswer \in Answers :
              (/\ JoinLinkRequestFailed(code, user, leagueAnswer, existingAnswer)
               /\ joinPageLoadLeague(code, user, leagueAnswer, existingAnswer))
              => joinPageError' # null
       /\ \A user \in Sessions, existingAnswer \in Answers, insertAnswer \in Answers :
              (/\ joinPageLeague # null
               /\ JoinButtonRequestFailed(user, existingAnswer, insertAnswer)
               /\ handleJoin(user, existingAnswer, insertAnswer))
              => joinPageError' # null
       /\ \A leagueId \in LeagueIds, answer \in Answers :
              (Failed(answer) /\ detailLoadLeague(leagueId, answer)) => detailError' # null
       /\ \A i \in 1..Len(rosterOps), answer \in Answers :
              (Failed(answer) /\ (InsertAnswered(i, answer) \/ DeleteAnswered(i, answer)))
              => rosterError' # null
       /\ \A i \in 1..Len(rosterOps), user \in Sessions, answer \in Answers :
              (user # null /\ Failed(answer) /\ loadRoster(i, user, answer))
              => rosterError' # null]_vars

HexDigit(n) == IF n < 10 THEN 48 + n ELSE 55 + n
HexValue(c) ==
    IF c \in 48..57 THEN c - 48
    ELSE IF c \in 65..70 THEN c - 55
    ELSE IF c \in 97..102 THEN c - 87
    ELSE -1

\* the characters encodeURIComponent keeps: A-Z a-z 0-9 - _ . ! ~ * ' ( )
UriUnreserved == (65..90) \cup (97..122) \cup (48..57) \cup {45, 95, 46, 33, 126, 42, 39, 40, 41}

RECURSIVE encodeURIComponent(_)
encodeURIComponent(s) ==
    IF s = << >> THEN << >>
    ELSE (IF Head(s) \in UriUnreserved THEN << Head(s) >>
          ELSE << 37, HexDigit(Head(s) \div 16), HexDigit(Head(s) % 16) >>)
         \o encodeURIComponent(Tail(s))

\* the decoding of a name or a value of URLSearchParams: '+' is a space, %XX a byte
RECURSIVE FormDecode(_)
FormDecode(s) ==
    IF s = << >> THEN << >>
    ELSE IF Head(s) = 43 THEN << 32 >> \o FormDecode(Tail(s))
    ELSE IF Head(s) = 37 /\ Len(s) >= 3 /\ HexValue(s[2]) >= 0 /\ HexValue(s[3]) >= 0
    THEN << 16 * HexValue(s[2]) + HexValue(s[3]) >> \o FormDecode(SubSeq(s, 4, Len(s)))
    ELSE << Head(s) >> \o FormDecode(Tail(s))

\* the first index of c in s, 0 when there is none
IndexOf(s, c) ==
    IF \E i \in 1..Len(s) : s[i] = c
    THEN CHOOSE i \in 1..Len(s) : s[i] = c /\ \A j \in 1..(i - 1) : s[j] # c
    ELSE 0

Before(s, c) == IF IndexOf(s, c) = 0 THEN s ELSE SubSeq(s, 1, IndexOf(s, c) - 1)
After(s, c) == IF IndexOf(s, c) = 0 THEN << >> ELSE SubSeq(s, IndexOf(s, c) + 1, Len(s))

\* searchParams.get(name) of a query string without its '?'
RECURSIVE QueryGet(_, _)
QueryGet(query, name) ==
    IF query = << >> THEN null
    ELSE LET pair == Before(query, 38)
         IN  IF pair # << >> /\ FormDecode(Before(pair, 61)) = name
             THEN Some(FormDecode(After(pair, 61)))
             ELSE QueryGet(After(query, 38), name)

\* what the page of a path reads: its pathname, and searchParams.get(name)
PathnameOf(to) == Before(to, 63)
SearchParamsGet(to, name) == QueryGet(After(to, 63), name)

LoginPath == << 47, 108, 111, 103, 105, 110 >>                     \* "/login"
ReturnTo == << 114, 101, 116, 117, 114, 110, 84, 111 >>            \* "returnTo"

\* a slip: the user is looked at before loading
ProtectedRouteUserFirst(loading, user, loc) ==
    IF user = null
    THEN [element |-> "navigate",
          to |-> Some(LoginPath \o << 63 >> \o ReturnTo \o << 61 >>
                      \o encodeURIComponent(loc.pathname \o loc.search))]
    ELSE IF loading THEN [element |-> "loading", to |-> null]
    ELSE [element |-> "children", to |-> null]

\* what ProtectedRoute returns for its state: the loading text, the Navigate
\* to the login page, or its children
ProtectedRoute(loading, user, loc) ==
    IF loading THEN [element |-> "loading", to |-> null]
    ELSE IF user = null
    THEN [element |-> "navigate",
          to |-> Some(LoginPath \o << 63 >> \o ReturnTo \o << 61 >>
                      \o encodeURIComponent(loc.pathname \o loc.search))]
    ELSE [element |-> "children", to |-> null]

\* "/", "/join" and "/league/7"; no query, "?code=A+B" and "?a=1&b=%20"
Pathnames == {<< 47 >>, << 47, 106, 111, 105, 110 >>,
              << 47, 108, 101, 97, 103, 117, 101, 47, 55 >>}
Searches == {<< >>, << 63, 99, 111, 100, 101, 61, 65, 43, 66 >>,
             << 63, 97, 61, 49, 38, 98, 61, 37, 50, 48 >>}
Locations == [pathname : Pathnames, search : Searches]

\* the callback of onAuthStateChange, called with the session of the event;
\* the subscription ends when the Navigate is rendered and the route left
AuthStateChange(newSession) ==
    /\ rendered # "navigate"
    /\ authChanges < MaxAuthChanges
    /\ authChanges' = authChanges + 1
    /\ session' = newSession
    /\ protectedUser' = newSession
    /\ protectedLoading' = FALSE
    /\ getUserRequest' = IF getUserRequest = {} THEN {} ELSE getUserRequest \cup {newSession}
    /\ UNCHANGED <<location, rendered, libraryVars, handlerVars, statsVars>>

\* checkUser after its await: the answer of getUser() sets the state; the
\* setters of a component that is gone do nothing
GetUserAnswered(user) ==
    /\ user \in getUserRequest
    /\ getUserRequest' = {}
    /\ IF rendered # "navigate"
       THEN protectedUser' = user /\ protectedLoading' = FALSE
       ELSE UNCHANGED <<protectedUser, protectedLoading>>
    /\ UNCHANGED <<location, session, authChanges, rendered, libraryVars, handlerVars, statsVars>>

\* React renders the component for its state
Render ==
    /\ rendered # "navigate"
    /\ rendered # ProtectedRoute(protectedLoading, protectedUser, location).element
    /\ rendered' = ProtectedRoute(protectedLoading, protectedUser, location).element
    /\ UNCHANGED <<location, session, protectedUser, protectedLoading, getUserRequest, authChanges,
                   libraryVars, handlerVars, statsVars>>

\* the component after its first render and its effect: getUser() is asked
InitProtectedRoute ==
    /\ NoLibraryInput /\ NoStatsState
    /\ route = "/login"
    /\ NoRosterState /\ NoTables /\ NoHomeState /\ NoJoinPageState /\ NoDetailState
    /\ location \in Locations
    /\ session \in Sessions
    /\ protectedUser = null /\ protectedLoading = TRUE
    /\ getUserRequest = {session}
    /\ authChanges = 0
    /\ rendered = "loading"
NextProtectedRoute ==
    \/ \E newSession \in Sessions : AuthStateChange(newSession)
    \/ \E user \in Sessions : GetUserAnswered(user)
    \/ Render
SpecProtectedRoute == InitProtectedRoute /\ [][NextProtectedRoute]_vars

\* C24: ProtectedRoute returns its children exactly when loading is false and
\* user is not null; while loading is true it returns the loading text, no
\* children and no redirect; when loading is false and user is null it
\* redirects to /login, whose returnTo parameter reads as the pathname
\* followed by the query string of the location.
RendersChildrenOnlyForUser ==
    LET r == ProtectedRoute(protectedLoading, protectedUser, location)
    IN  /\ r.element = "children" <=> (~protectedLoading /\ protectedUser # null)
        /\ protectedLoading => r.element = "loading"
        /\ (~protectedLoading /\ protectedUser = null)
               => /\ r.element = "navigate"
                  /\ PathnameOf(r.to[1]) = LoginPath
                  /\ SearchParamsGet(r.to[1], ReturnTo) = Some(location.pathname \o location.search)

\* a signed-out visitor of "/join?code=A+B" was sent to the login page
RedirectedWithQuery ==
    /\ rendered = "navigate"
    /\ ~protectedLoading /\ protectedUser = null
    /\ location.search = << 63, 99, 111, 100, 101, 61, 65, 43, 66 >>

\* C25: an answer of getUser() that arrives after the callback was called
\* with no session does not set a user: the user state stays that of the
\* latest authentication event.
StaleGetUserDoesNotRestoreUser ==
    [][\A user \in Sessions :
          (authChanges > 0 /\ session = null /\ rendered # "navigate" /\ GetUserAnswered(user))
          => protectedUser' = null]_vars

(***************************************************************************)
(* The statistics of the league page (pages/LeagueDetail.tsx) and of the   *)
(* player page (PlayerDetail).  Each page asks for the rows of             *)
(* player_stats of the teams of its league, latest first, and computes     *)
(* its tables from them.  A quotient is kept as numerator over             *)
(* denominator.  The league averages of the player page, which nothing     *)
(* else reads, are left out.                                               *)
(***************************************************************************)
LEAGUE_TYPES == [SALARY_CAP |-> "salary_cap", DRAFT |-> "draft"]

\* key.split('|')
RECURSIVE Split(_, _)
Split(s, sep) ==
    IF IndexOf(s, sep) = 0 THEN << s >>
    ELSE << Before(s, sep) >> \o Split(After(s, sep), sep)

\* the decimal number written by the characters first..last of s
RECURSIVE Digits(_, _, _)
Digits(s, first, last) ==
    IF last < first THEN 0
    ELSE 10 * Digits(s, first, last - 1) + (s[last] - 48)

\* the day of a timestamp "YYYY-MM-DD", by which the backend orders the rows
\* and new Date(timestamp).getTime() orders the games
DateValue(timestamp) ==
    (Digits(timestamp, 1, 4) * 12 + Digits(timestamp, 6, 7)) * 31 + Digits(timestamp, 9, 10)

\* the comparator (a, b) => new Date(b.timestamp) - new Date(a.timestamp),
\* 0 when one of the two has no timestamp
CompareByTimestamp(a, b) ==
    IF a.timestamp # undefined /\ Truthy(a.timestamp[1])
       /\ b.timestamp # undefined /\ Truthy(b.timestamp[1])
    THEN DateValue(b.timestamp[1]) - DateValue(a.timestamp[1])
    ELSE 0

\* the stable sort by that comparator: x goes behind what is not later than it
RECURSIVE InsertLatestFirst(_, _)
InsertLatestFirst(sorted, x) ==
    IF sorted = << >> THEN << x >>
    ELSE IF CompareByTimestamp(Head(sorted), x) <= 0
    THEN << Head(sorted) >> \o InsertLatestFirst(Tail(sorted), x)
    ELSE << x >> \o sorted

RECURSIVE SortLatestFirst(_)
SortLatestFirst(list) ==
    IF list = << >> THEN << >>
    ELSE InsertLatestFirst(SortLatestFirst(SubSeq(list, 1, Len(list) - 1)), Last(list))

\* .in('player_team', teams).order('timestamp', { ascending: false })
StatsOfTeams(table, teams) ==
    SortLatestFirst(SelectSeq(table, LAMBDA row : \E i \in 1..Len(teams) : teams[i] = row.player_team))

\* the same with .eq('player_name', name)
StatsOfPlayer(table, name, teams) ==
    SelectSeq(StatsOfTeams(table, teams), LAMBDA row : row.player_name = name)

\* decodeURIComponent of an ASCII string: null where it throws URIError
RECURSIVE decodeURIComponent(_)
decodeURIComponent(s) ==
    IF s = << >> THEN Some(<< >>)
    ELSE IF Head(s) # 37
    THEN LET rest == decodeURIComponent(Tail(s))
         IN  IF rest = null THEN null ELSE Some(<< Head(s) >> \o rest[1])
    ELSE IF Len(s) >= 3 /\ HexValue(s[2]) >= 0 /\ HexValue(s[2]) < 8 /\ HexValue(s[3]) >= 0
    THEN LET rest == decodeURIComponent(SubSeq(s, 4, Len(s)))
         IN  IF rest = null THEN null
             ELSE Some(<< 16 * HexValue(s[2]) + HexValue(s[3]) >> \o rest[1])
    ELSE null

Ratio(num, den) == IF den > 0 THEN << num, den >> ELSE << 0, 1 >>

\* the sums of one player or one game, with one more row
AddStat(sums, row) ==
    [sums EXCEPT !.goals = @ + row.goals, !.assists = @ + row.assists, !.ds = @ + row.ds,
                 !.drops = @ + row.drops, !.throwaways = @ + row.throwaways]

\* the derived fields of AggregatedPlayerStats
AggregatedOf(player_name, player_team, games, sums) ==
    LET games_played == Cardinality(games)
        total_turnovers == sums.drops + sums.throwaways
        total_score == calculateFantasyScore(sums.goals, sums.assists, sums.ds,
                                             sums.drops, sums.throwaways)
    IN  [player_name |-> player_name, player_team |-> player_team,
         games_played |-> games_played,
         total_goals |-> sums.goals, total_assists |-> sums.assists, total_ds |-> sums.ds,
         total_drops |-> sums.drops, total_throwaways |-> sums.throwaways,
         total_turnovers |-> total_turnovers, total_score |-> total_score,
         avg_score_per_game |-> Ratio(total_score, games_played),
         avg_goals |-> Ratio(sums.goals, games_played),
         avg_assists |-> Ratio(sums.assists, games_played),
         avg_ds |-> Ratio(sums.ds, games_played),
         avg_turnovers |-> Ratio(total_turnovers, games_played)]

RECURSIVE SumStats(_)
SumStats(stats) ==
    IF stats = << >> THEN ZeroStats ELSE AddStat(SumStats(SubSeq(stats, 1, Len(stats) - 1)), Last(stats))

\* PlayerDetail.aggregatePlayerStats: the totals of the rows of the player
playerAggregatePlayerStats(stats) ==
    AggregatedOf(IF stats = << >> THEN EmptyStr ELSE stats[1].player_name,
                 IF stats = << >> THEN EmptyStr ELSE stats[1].player_team,
                 {GameKey(stats[i].tournament_played, stats[i].game_played) : i \in 1..Len(stats)},
                 SumStats(stats))

\* a slip: the games of one tournament share a key
GroupStatByTournament(gameMap, row) ==
    LET gameKey == row.tournament_played
        map1 == IF ~MapHas(gameMap, gameKey)
                THEN MapSet(gameMap, gameKey,
                            [opponent |-> row.game_played, tournament |-> row.tournament_played,
                             goals |-> 0, assists |-> 0, ds |-> 0, drops |-> 0, throwaways |-> 0,
                             turnovers |-> 0, score |-> 0, timestamp |-> row.timestamp])
                ELSE gameMap
    IN  MapSet(map1, gameKey, AddStat(MapGet(map1, gameKey), row))

\* the body of stats.forEach of groupStatsByGame
GroupStat(gameMap, row) ==
    LET gameKey == GameKey(row.tournament_played, row.game_played)
        map1 == IF ~MapHas(gameMap, gameKey)
                THEN MapSet(gameMap, gameKey,
                            [opponent |-> row.game_played, tournament |-> row.tournament_played,
                             goals |-> 0, assists |-> 0, ds |-> 0, drops |-> 0, throwaways |-> 0,
                             turnovers |-> 0, score |-> 0, timestamp |-> row.timestamp])
                ELSE gameMap
    IN  MapSet(map1, gameKey, AddStat(MapGet(map1, gameKey), row))

RECURSIVE GroupStats(_, _)
GroupStats(gameMap, stats) ==
    IF stats = << >> THEN gameMap ELSE GroupStats(GroupStat(gameMap, Head(stats)), Tail(stats))

\* PlayerDetail.groupStatsByGame: one entry per game, latest first
groupStatsByGame(stats) ==
    LET gameMap == GroupStats(<< >>, stats)
        gameStatsList ==
            [i \in 1..Len(gameMap) |->
                [gameMap[i].value EXCEPT
                    !.turnovers = gameMap[i].value.drops + gameMap[i].value.throwaways,
                    !.score = calculateFantasyScore(
                                  gameMap[i].value.goals, gameMap[i].value.assists,
                                  gameMap[i].value.ds, gameMap[i].value.drops,
                                  gameMap[i].value.throwaways)]]
    IN  SortLatestFirst(gameStatsList)

\* playerStatsMap of the two salary-cap functions: the rows of each key
RECURSIVE GroupByPlayerKey(_, _)
GroupByPlayerKey(playerStatsMap, stats) ==
    IF stats = << >> THEN playerStatsMap
    ELSE LET key == PlayerKey(Head(stats))
             list == IF MapHas(playerStatsMap, key) THEN MapGet(playerStatsMap, key) ELSE << >>
         IN  GroupByPlayerKey(MapSet(playerStatsMap, key, Append(list, Head(stats))), Tail(stats))

\* const [player_name, player_team] = key.split('|')
NamesOfKey(key) ==
    LET parts == Split(key, Separator[1])
    IN  [player_name |-> parts[1],
         player_team |-> IF Len(parts) >= 2 THEN Some(parts[2]) ELSE undefined]

\* the entries pushed by playerStatsMap.forEach, those of the players that
\* have a most recent tournament
RECURSIVE SalaryCapEntries(_)
SalaryCapEntries(playerStatsMap) ==
    IF playerStatsMap = << >> THEN << >>
    ELSE LET names == NamesOfKey(Head(playerStatsMap).key)
             mostRecentStats == getMostRecentTournamentStats(Head(playerStatsMap).value)
         IN  (IF mostRecentStats = null THEN << >>
              ELSE LET m == mostRecentStats[1]
                   IN  << [player_name |-> names.player_name,
                           player_team |-> names.player_team[1],
                           price |-> 0,
                           captain_score |-> m.captain_score,
                           handler_score |-> calculateHandlerScore(
                               m.goals, m.assists, m.ds, m.drops, m.throwaways),
                           cutter_score |-> calculateCutterScore(
                               m.goals, m.assists, m.ds, m.drops, m.throwaways),
                           defender_score |-> calculateDefenderScore(
                               m.goals, m.assists, m.ds, m.drops, m.throwaways),
                           most_recent_tournament |-> m.tournament_name,
                           games_played_at_tournament |-> m.games_played] >>)
             \o SalaryCapEntries(Tail(playerStatsMap))

\* priceMap.get(key) || 0
PriceOfKey(priceMap, key) == IF MapHas(priceMap, key) THEN MapGet(priceMap, key) ELSE 0

\* LeagueDetail.aggregateSalaryCapPlayerStats
aggregateSalaryCapPlayerStats(stats) ==
    LET salaryCapStatsList == SalaryCapEntries(GroupByPlayerKey(<< >>, stats))
        priceMap == calculatePlayerPrices(salaryCapStatsList)
    IN  [i \in 1..Len(salaryCapStatsList) |->
            [salaryCapStatsList[i] EXCEPT
                !.price = PriceOfKey(priceMap, PlayerKey(salaryCapStatsList[i]))]]

\* the body of stats.forEach of LeagueDetail.aggregatePlayerStats
DetailAggregateStat(playerMap, row) ==
    LET gameKey == GameKey(row.tournament_played, row.game_played)
        map1 == IF ~MapHas(playerMap, row.player_name)
                THEN MapSet(playerMap, row.player_name,
                            [player_name |-> row.player_name, player_team |-> row.player_team,
                             games |-> {}, sums |-> ZeroStats])
                ELSE playerMap
        player == MapGet(map1, row.player_name)
    IN  MapSet(map1, row.player_name,
               [player EXCEPT !.games = @ \cup {gameKey}, !.sums = AddStat(@, row)])

RECURSIVE DetailAggregateStats(_, _)
DetailAggregateStats(playerMap, stats) ==
    IF stats = << >> THEN playerMap
    ELSE DetailAggregateStats(DetailAggregateStat(playerMap, Head(stats)), Tail(stats))

\* LeagueDetail.aggregatePlayerStats
detailAggregatePlayerStats(stats) ==
    LET playerMap == DetailAggregateStats(<< >>, stats)
    IN  [i \in 1..Len(playerMap) |->
            AggregatedOf(playerMap[i].value.player_name, playerMap[i].value.player_team,
                         playerMap[i].value.games, playerMap[i].value.sums)]

\* PlayerDetail.calculateSalaryCapStats: the value given to setSalaryCapStats
calculateSalaryCapStats(stats, allLeagueStats) ==
    LET mostRecentStats == getMostRecentTournamentStats(stats)
        priceMap == calculatePlayerPrices(SalaryCapEntries(GroupByPlayerKey(<< >>, allLeagueStats)))
    IN  IF mostRecentStats = null THEN null
        ELSE Some([price |-> PriceOfKey(priceMap, PlayerKey(stats[1])),
                   captain_score |-> mostRecentStats[1].captain_score,
                   handler_score |-> 0, cutter_score |-> 0, defender_score |-> 0,
                   most_recent_tournament |-> mostRecentStats[1].tournament_name,
                   games_played_at_tournament |-> mostRecentStats[1].games_played])

\* PlayerDetail.loadPlayerStats, from the answers of its two requests on
PlayerStatsAnswered(playerAnswer, leagueAnswer) ==
    LET league == playerLeague[1]
        decodedPlayerName == decodeURIComponent(playerName)
        playerData == StatsOfPlayer(player_stats, decodedPlayerName[1], league.teams)
        leagueData == StatsOfTeams(player_stats, league.teams)
        err == IF decodedPlayerName = null THEN Some([message |-> "URI malformed"])
               ELSE IF playerAnswer.error # null THEN playerAnswer.error
               ELSE leagueAnswer.error
    IN  /\ route = "/league/:leagueId/player/:playerName"
        /\ playerLoadingStats
        /\ playerLoadingStats' = FALSE
        /\ IF err # null
           THEN /\ playerError' = Some(MessageOr(err[1], "Failed to load player stats"))
                /\ UNCHANGED <<allLeaguePlayerStats, aggregatedStats, gameStats,
                               playerSalaryCapStats>>
           ELSE IF Len(playerData) = 0
           THEN /\ aggregatedStats' = null /\ gameStats' = << >>
                /\ playerSalaryCapStats' = null
                /\ UNCHANGED <<playerError, allLeaguePlayerStats>>
           ELSE /\ allLeaguePlayerStats' = leagueData
                /\ aggregatedStats' = Some(playerAggregatePlayerStats(playerData))
                /\ gameStats' = groupStatsByGame(playerData)
                /\ playerSalaryCapStats' =
                       IF league.type = LEAGUE_TYPES.SALARY_CAP
                       THEN calculateSalaryCapStats(playerData, leagueData)
                       ELSE null
                /\ UNCHANGED playerError
        /\ UNCHANGED <<player_stats, playerLeague, playerName, leagueStatsVars,
                       libraryVars, authVars, handlerVars>>

\* loadPlayerStats of LeagueDetail, from the answer of its request on
LeagueStatsAnswered(answer) ==
    LET league == detailLeague[1]
        stats == StatsOfTeams(player_stats, league.teams)
    IN  /\ route = "/league/:leagueId"
        /\ leagueLoadingStats
        /\ leagueLoadingStats' = FALSE
        /\ IF answer.error # null
           THEN /\ detailError' = Some(MessageOr(answer.error[1], "Failed to load player stats"))
                /\ UNCHANGED <<leagueAggregatedStats, leagueSalaryCapStats>>
           ELSE IF Len(stats) = 0
           THEN /\ leagueAggregatedStats' = << >> /\ leagueSalaryCapStats' = << >>
                /\ UNCHANGED detailError
           ELSE /\ leagueAggregatedStats' = IF league.type = LEAGUE_TYPES.DRAFT
                                            THEN detailAggregatePlayerStats(stats) ELSE << >>
                /\ leagueSalaryCapStats' = IF league.type = LEAGUE_TYPES.SALARY_CAP
                                           THEN aggregateSalaryCapPlayerStats(stats) ELSE << >>
                /\ UNCHANGED detailError
        /\ UNCHANGED <<detailLeague, detailLoading, player_stats, playerDetailVars,
                       libraryVars, authVars, route, rosterVars, tableVars, homeVars, joinPageVars>>

\* "b" and "|b", the teams of the league of the two pages
StatsTeams == << << 98 >>, << 124, 98 >> >>
StatsLeagues ==
    {[id |-> 1, code |-> CodeAAAAAA, name |-> << 73, 66 >>, type |-> t, teams |-> StatsTeams] :
        t \in {LEAGUE_TYPES.DRAFT, LEAGUE_TYPES.SALARY_CAP}}

\* ("a","b"), ("a|","b") and ("a","|b"): the first and the last have one name,
\* the last two one key
StatsPlayerIds == {<< << 97 >>, << 98 >> >>, << << 97, 124 >>, << 98 >> >>,
                   << << 97 >>, << 124, 98 >> >>}
\* "Alpha" on 2024-01-01 and "Zeta" on 2024-01-02
StatsTournaments ==
    {[name |-> Alpha, timestamp |-> Some(<< 50, 48, 50, 52, 45, 48, 49, 45, 48, 49 >>)],
     [name |-> Zeta, timestamp |-> Some(<< 50, 48, 50, 52, 45, 48, 49, 45, 48, 50 >>)]}
\* a game "G1" with a goal and a drop, a game "G2" with an assist, a d and a throwaway
StatsGameLines ==
    {[game_played |-> << 71, 49 >>, stats |-> [ZeroStats EXCEPT !.goals = 1, !.drops = 1]],
     [game_played |-> << 71, 50 >>,
      stats |-> [ZeroStats EXCEPT !.assists = 1, !.ds = 1, !.throwaways = 1]]}
PageStatRows ==
    {[player_name |-> id[1], player_team |-> id[2],
      tournament_played |-> t.name, game_played |-> l.game_played, timestamp |-> t.timestamp,
      goals |-> l.stats.goals, assists |-> l.stats.assists, ds |-> l.stats.ds,
      drops |-> l.stats.drops, throwaways |-> l.stats.throwaways] :
        id \in StatsPlayerIds, t \in StatsTournaments, l \in StatsGameLines}
\* "a" and "a|"
StatsPlayerNames == {<< 97 >>, << 97, 124 >>}

\* one of the two pages, after its league is loaded and its loadPlayerStats
\* has sent its requests
InitStatsPages ==
    /\ NoLibraryInput /\ NoRosterState /\ NoHomeState /\ NoJoinPageState /\ NoAuthState
    /\ leagues = << TheLeague >> /\ league_participants = << >> /\ nextLeagueId = 2
    /\ player_stats \in SeqsUpTo(PageStatRows, MaxStatRows)
    /\ route \in {"/league/:leagueId", "/league/:leagueId/player/:playerName"}
    /\ detailError = null
    /\ IF route = "/league/:leagueId"
       THEN /\ detailLeague \in {Some(l) : l \in StatsLeagues} /\ detailLoading = FALSE
            /\ leagueLoadingStats = TRUE
            /\ leagueAggregatedStats = << >> /\ leagueSalaryCapStats = << >>
            /\ NoPlayerDetailState
       ELSE /\ detailLeague = null /\ detailLoading = TRUE
            /\ NoLeagueStatsState
            /\ playerLeague \in {Some(l) : l \in StatsLeagues}
            /\ playerName \in StatsPlayerNames
            /\ playerError = null /\ playerLoadingStats = TRUE
            /\ allLeaguePlayerStats = << >> /\ aggregatedStats = null /\ gameStats = << >>
            /\ playerSalaryCapStats = null
NextStatsPages ==
    \/ \E playerAnswer, leagueAnswer \in Answers : PlayerStatsAnswered(playerAnswer, leagueAnswer)
    \/ \E answer \in Answers : LeagueStatsAnswered(answer)
SpecStatsPages == InitStatsPages /\ [][NextStatsPages]_vars

RECURSIVE SumGames(_, _)
SumGames(games, field) ==
    IF games = << >> THEN 0 ELSE Head(games)[field] + SumGames(Tail(games), field)

\* C26: on the player page, the scores of the games of groupStatsByGame sum to
\* the total_score of aggregatePlayerStats for the same rows; the goals, the
\* assists, the ds, the drops and the throwaways of the games sum to the
\* totals; and there are games_played games.
GamesSumToTotals ==
    (route = "/league/:leagueId/player/:playerName" /\ aggregatedStats # null)
    => /\ SumGames(gameStats, "score") = aggregatedStats[1].total_score
       /\ SumGames(gameStats, "goals") = aggregatedStats[1].total_goals
       /\ SumGames(gameStats, "assists") = aggregatedStats[1].total_assists
       /\ SumGames(gameStats, "ds") = aggregatedStats[1].total_ds
       /\ SumGames(gameStats, "drops") = aggregatedStats[1].total_drops
       /\ SumGames(gameStats, "throwaways") = aggregatedStats[1].total_throwaways
       /\ Len(gameStats) = aggregatedStats[1].games_played

\* a player with two rows of one game and one row of another
PlayerWithTwoRowsOfOneGame ==
    /\ aggregatedStats # null
    /\ Len(gameStats) = 2
    /\ \E i \in 1..Len(gameStats) : gameStats[i].goals = 2 /\ gameStats[i].score = 0
    /\ aggregatedStats[1].total_score = 9

\* the (player_name, player_team) pairs of rows, and the rows of one pair
PairsOf(stats) == {<< stats[i].player_name, stats[i].player_team >> : i \in 1..Len(stats)}
RowsOfPair(stats, pair) ==
    SelectSeq(stats, LAMBDA row : row.player_name = pair[1] /\ row.player_team = pair[2])
EntriesOfPair(entries, pair) ==
    SelectSeq(entries, LAMBDA e : e.player_name = pair[1] /\ e.player_team = pair[2])

\* the rows the league page was answered with
LeagueStatsShown == StatsOfTeams(player_stats, detailLeague[1].teams)
LeagueStatsLoaded(type) ==
    /\ route = "/league/:leagueId" /\ ~leagueLoadingStats /\ detailError = null
    /\ detailLeague[1].type = type

\* the captain scores of the most recent tournaments of the pairs of stats
CaptainScoresOf(stats) ==
    {getMostRecentTournamentStats(RowsOfPair(stats, pair))[1].captain_score : pair \in PairsOf(stats)}
Least(S) == CHOOSE m \in S : \A x \in S : m <= x
Greatest(S) == CHOOSE m \in S : \A x \in S : m >= x

\* C27: aggregateSalaryCapPlayerStats returns one entry for each
\* (player_name, player_team) pair of its rows and no other; the entry of a
\* pair has the names of the pair, the scores of the most recent tournament
\* of the rows of the pair and the price of that captain score among those
\* of all pairs, also when a name contains '|'.
OneSalaryCapEntryPerPair ==
    LeagueStatsLoaded(LEAGUE_TYPES.SALARY_CAP)
    => LET stats == LeagueStatsShown
       IN  /\ Len(leagueSalaryCapStats) = Cardinality(PairsOf(stats))
           /\ \A pair \in PairsOf(stats) :
                  LET entries == EntriesOfPair(leagueSalaryCapStats, pair)
                      m == getMostRecentTournamentStats(RowsOfPair(stats, pair))[1]
                  IN  /\ Len(entries) = 1
                      /\ entries[1].captain_score = m.captain_score
                      /\ entries[1].handler_score = calculateHandlerScore(
                             m.goals, m.assists, m.ds, m.drops, m.throwaways)
                      /\ entries[1].cutter_score = calculateCutterScore(
                             m.goals, m.assists, m.ds, m.drops, m.throwaways)
                      /\ entries[1].defender_score = calculateDefenderScore(
                             m.goals, m.assists, m.ds, m.drops, m.throwaways)
                      /\ entries[1].price = scalePrice(m.captain_score,
                             Least(CaptainScoresOf(stats)), Greatest(CaptainScoresOf(stats)))

\* C28: in a draft league, aggregatePlayerStats of the league page returns one
\* entry for each (player_name, player_team) pair of its rows, with the
\* totals and the number of games of the rows of that pair: players of one
\* name on two teams are not merged.
OneDraftEntryPerPair ==
    LeagueStatsLoaded(LEAGUE_TYPES.DRAFT)
    => LET stats == LeagueStatsShown
       IN  /\ Len(leagueAggregatedStats) = Cardinality(PairsOf(stats))
           /\ \A pair \in PairsOf(stats) :
                  LET entries == EntriesOfPair(leagueAggregatedStats, pair)
                      rows == RowsOfPair(stats, pair)
                  IN  /\ Len(entries) = 1
                      /\ entries[1].total_goals = SumStats(rows).goals
                      /\ entries[1].total_assists = SumStats(rows).assists
                      /\ entries[1].total_ds = SumStats(rows).ds
                      /\ entries[1].total_drops = SumStats(rows).drops
                      /\ entries[1].total_throwaways = SumStats(rows).throwaways
                      /\ entries[1].games_played =
                             Cardinality({GameKey(rows[i].tournament_played, rows[i].game_played) :
                                             i \in 1..Len(rows)})

\* the player page of a salary-cap league shows salary-cap statistics
PlayerSalaryCapShown ==
    /\ route = "/league/:leagueId/player/:playerName" /\ ~playerLoadingStats
    /\ playerError = null /\ aggregatedStats # null
    /\ playerLeague[1].type = LEAGUE_TYPES.SALARY_CAP

\* C29: in a salary-cap league, the price, the captain score, the most recent
\* tournament and the games played that the player page computes for its
\* player are those of the entry of the player's (player_name, player_team)
\* pair in the list the league page computes from the same rows, and the
\* price is an integer from 1 to 20.
PlayerPageAgreesWithLeaguePage ==
    PlayerSalaryCapShown
    => LET list == aggregateSalaryCapPlayerStats(StatsOfTeams(player_stats, playerLeague[1].teams))
           entries == EntriesOfPair(list, << aggregatedStats[1].player_name,
                                             aggregatedStats[1].player_team >>)
       IN  /\ playerSalaryCapStats # null
           /\ Len(entries) = 1
           /\ playerSalaryCapStats[1].price = entries[1].price
           /\ playerSalaryCapStats[1].captain_score = entries[1].captain_score
           /\ playerSalaryCapStats[1].most_recent_tournament = entries[1].most_recent_tournament
           /\ playerSalaryCapStats[1].games_played_at_tournament
                  = entries[1].games_played_at_tournament
           /\ playerSalaryCapStats[1].price \in 1..20

(***************************************************************************)
(* What the join properties speak of.                                      *)
(***************************************************************************)
IsMember == ParticipantRows(league_participants, TheLeague.id, PageUser) # << >>
AlreadyInLeague == Some(Msg("You are already in this league"))
Answered == [error |-> null]

\* the codes that name the league
CodesOfTheLeague == {c \in JoinCodes : ToUpperCase(Trim(c)) = TheLeague.code}

\* C16: when the join attempts of the user run one after the other,
\* league_participants never holds two rows for the user and the league, and
\* an attempt of the logged-in user who is a member already, through the form
\* of Home or the button of the join page, inserts nothing and ends with the
\* error 'You are already in this league' and without a success.
MemberJoinsOnceAndIsTold ==
    [][/\ Len(ParticipantRows(league_participants', TheLeague.id, PageUser)) <= 1
       /\ \A joinCode \in CodesOfTheLeague, existingAnswer \in Answers,
             insertAnswer \in Answers, leaguesAnswer \in Answers :
              (/\ IsMember
               /\ handleJoinLeague(joinCode, Some(PageUser), Answered,
                                   existingAnswer, insertAnswer, leaguesAnswer))
              => /\ league_participants' = league_participants
                 /\ joinError' = AlreadyInLeague
                 /\ joinSuccess' = null
       /\ \A existingAnswer \in Answers, insertAnswer \in Answers :
              (IsMember /\ handleJoin(Some(PageUser), existingAnswer, insertAnswer))
              => /\ league_participants' = league_participants
                 /\ joinPageError' = AlreadyInLeague
                 /\ joinPageSuccess' = joinPageSuccess]_vars

====
